---------------------------- MODULE Spec2Model ----------------------------
(***************************************************************************)
(* A model of the business simulation of src/business_sim_v0.9.py: the     *)
(* Business / AI_Business records and their methods, the Market (trend,    *)
(* events, demand, allocation of sales) and the Game loop (run,            *)
(* get_player_actions, process_turn, check_game_over).                     *)
(*                                                                         *)
(* Numbers.  The program computes in Python floats; the model computes in  *)
(* fixed point on integers:                                                *)
(*   - money, loans, prices, unit costs and every last_turn_* amount are   *)
(*     whole cents (the configuration constants keep the source's dollar   *)
(*     values and are multiplied by 100 where they are used);              *)
(*   - multipliers (trend, random factors, difficulty) are whole percents; *)
(*   - a product of a float expression is truncated where the program      *)
(*     truncates it (int(), math.floor, //) and otherwise floored to the   *)
(*     cent;                                                               *)
(*   - the fractional powers of the demand and score formulas are read    *)
(*     from tables computed from the source's formula.                     *)
(* A random draw of the program is a choice from a small set of values of  *)
(* its range.                                                              *)
(***************************************************************************)
EXTENDS Integers, Sequences, FiniteSets, TLC

\* --- Configuration (src/business_sim_v0.9.py lines 8-35), dollars or units ---
INITIAL_MONEY == 10000
TARGET_NET_WORTH == 25000
MAX_TURNS == 120
NUM_INITIAL_COMPETITORS == 2
BASE_DEMAND == 200
INITIAL_PROD_COST == 8
INITIAL_QUALITY == 3
INITIAL_MARKETING_LVL == 1
INITIAL_WORKERS == 0
WORKER_SALARY == 150
MAX_PROD_PER_WORKER == 10
HIRING_COST_PER_WORKER == 250
FIRING_COST_PER_WORKER == 500
RND_COST_FACTOR == 600
RND_POINTS_PER_UPGRADE == 120
MARKETING_COST_FACTOR == 400
\* INTEREST_RATE = 0.05 and LOAN_INTEREST_RATE = 0.10, in percent per year
INTEREST_RATE == 5
LOAN_INTEREST_RATE == 10
\* MAX_LOAN_RATIO = 2.0
MAX_LOAN_RATIO == 2

\* --- Arithmetic helpers ---
Min2(a, b) == IF a <= b THEN a ELSE b
Max2(a, b) == IF a >= b THEN a ELSE b
Min3(a, b, c) == Min2(a, Min2(b, c))
\* Python's int(): truncation toward zero of n/d (d > 0)
TruncDiv(n, d) == IF n >= 0 THEN n \div d ELSE -((-n) \div d)
\* math.ceil of n/d (n >= 0, d > 0)
CeilDiv(n, d) == (n + d - 1) \div d

\* --- Power tables ---
\* 10000 * (1/p) ** (DEMAND_PRICE_SENSITIVITY * COMPETITION_SENSITIVITY), p = 1..60 dollars
PriceScoreTable ==
  << 10000, 4352, 2675, 1894, 1449, 1164, 968, 824, 715, 630,
     562, 506, 460, 421, 387, 358, 333, 311, 292, 274,
     259, 244, 232, 220, 210, 200, 191, 183, 175, 168,
     162, 156, 150, 145, 140, 135, 131, 127, 123, 119,
     116, 112, 109, 106, 103, 101, 98, 96, 93, 91,
     89, 87, 85, 83, 81, 79, 78, 76, 74, 73 >>
\* 100 * q ** (DEMAND_QUALITY_SENSITIVITY * COMPETITION_SENSITIVITY), q = 1..10
QualityScoreTable == << 100, 196, 291, 386, 480, 573, 666, 759, 851, 944 >>
\* 100 * m ** (DEMAND_MARKETING_SENSITIVITY * COMPETITION_SENSITIVITY), m = 1..10
MarketingScoreTable == << 100, 177, 247, 313, 377, 438, 497, 555, 612, 668 >>
\* 100 * (INITIAL_PROD_COST * 2 / p) ** DEMAND_PRICE_SENSITIVITY, p = 1..60 dollars
PriceFactorTable ==
  << 8444, 2785, 1456, 918, 643, 480, 375, 303, 251, 212,
     182, 158, 139, 123, 110, 100, 90, 82, 75, 69,
     64, 60, 55, 52, 48, 45, 43, 40, 38, 36,
     34, 32, 31, 29, 28, 27, 26, 25, 24, 23,
     22, 21, 20, 19, 19, 18, 17, 17, 16, 16,
     15, 15, 14, 14, 13, 13, 13, 12, 12, 12 >>
\* 100 * ((k/6) / 5.0) ** DEMAND_QUALITY_SENSITIVITY, k = 6..60 (an average of up
\* to three levels is a whole number of sixths)
QualityFactorTable ==
  << 12, 15, 17, 20, 23, 27, 30, 33, 37, 40, 44, 47, 51, 55, 59, 62, 66, 70,
     74, 78, 83, 87, 91, 95, 100, 104, 108, 113, 117, 122, 126, 131, 135, 140,
     145, 150, 154, 159, 164, 169, 174, 179, 184, 189, 194, 199, 204, 209, 214,
     219, 225, 230, 235, 240, 246 >>
\* 100 * ((k/6) / 5.0) ** DEMAND_MARKETING_SENSITIVITY, k = 6..60
MarketingFactorTable ==
  << 17, 20, 23, 26, 29, 33, 36, 39, 43, 46, 50, 53, 57, 60, 64, 67, 71, 74,
     78, 81, 85, 89, 92, 96, 100, 103, 107, 111, 114, 118, 122, 125, 129, 133,
     137, 141, 144, 148, 152, 156, 160, 163, 167, 171, 175, 179, 183, 187, 190,
     194, 198, 202, 206, 210, 214 >>
\* int(MARKETING_COST_FACTOR * level ** 1.5), level = 1..10, dollars
MarketingCostTable == << 400, 1131, 2078, 3200, 4472, 5878, 7408, 9050, 10800, 12649 >>

\* A price in cents as an index of a price table: max(1, price) in whole dollars,
\* the table's last entry standing for every higher price.
PriceIndex(cents) == Min2(Len(PriceScoreTable), Max2(1, cents \div 100))

\* --- Business (lines 63-141) ---
\* name: 0 is "Player Inc.", n > 0 is "Competitor Mk<n>".
Business(name, is_ai, initial_money) ==
  [ name |-> name, is_ai |-> is_ai, money |-> initial_money, inventory |-> 0,
    production_cost |-> INITIAL_PROD_COST * 100,
    product_quality |-> INITIAL_QUALITY,
    marketing_level |-> INITIAL_MARKETING_LVL,
    price_per_unit |-> (INITIAL_PROD_COST * 100 * 25) \div 10,
    rnd_points |-> 0, loan_amount |-> 0, workers |-> INITIAL_WORKERS,
    bankrupt |-> FALSE,
    last_turn_sales_units |-> 0, last_turn_revenue |-> 0, last_turn_cogs |-> 0,
    last_turn_gross_profit |-> 0, last_turn_salaries |-> 0,
    last_turn_marketing_spent |-> 0, last_turn_rnd_spent |-> 0,
    last_turn_interest_paid |-> 0, last_turn_hiring_cost |-> 0,
    last_turn_firing_cost |-> 0, last_turn_loan_repayment |-> 0,
    last_turn_net_income |-> 0, total_gross_profit |-> 0, total_net_income |-> 0,
    \* AI_Business attributes (0 for the player, who has none)
    difficulty |-> 0, target_inventory_ratio |-> 0,
    investment_aggressiveness |-> 0, pricing_margin |-> 0,
    min_target_inventory |-> 0 ]

max_production_capacity(b) == b.workers * MAX_PROD_PER_WORKER
calculate_assets(b) == b.money + b.inventory * b.production_cost
calculate_net_worth(b) == calculate_assets(b) - b.loan_amount
get_max_loan(b) == Max2(0, calculate_assets(b) * MAX_LOAN_RATIO - b.loan_amount)

\* pay_salaries without line 105: the payment is not recorded
pay_salaries_unrecorded(b, salary) ==
  [b EXCEPT !.money = @ - b.workers * salary * 100]

\* salary: the current value of the global WORKER_SALARY, dollars
pay_salaries(b, salary) ==
  LET salary_cost == b.workers * salary * 100
  IN  [b EXCEPT !.money = @ - salary_cost, !.last_turn_salaries = salary_cost]

interest_earned(b) ==
  IF b.money > 0 THEN (b.money * INTEREST_RATE) \div 1200 ELSE 0

\* apply_interest charging the loan the firm has now, not the balance handed in
apply_interest_on_current_loan(b, loan_balance_at_start_of_period) ==
  LET earned == interest_earned(b)
      paid == IF b.loan_amount > 0
              THEN (b.loan_amount * LOAN_INTEREST_RATE) \div 1200
              ELSE 0
  IN  [b EXCEPT !.money = @ + earned - paid, !.last_turn_interest_paid = paid]

\* lines 108-118
apply_interest(b, loan_balance_at_start_of_period) ==
  LET earned == interest_earned(b)
      paid == IF loan_balance_at_start_of_period > 0
              THEN (loan_balance_at_start_of_period * LOAN_INTEREST_RATE) \div 1200
              ELSE 0
  IN  [b EXCEPT !.money = @ + earned - paid, !.last_turn_interest_paid = paid]

\* process_sales without the second test of line 123
process_sales_unchecked(b, units_sold) ==
  LET z == [b EXCEPT !.last_turn_sales_units = 0, !.last_turn_revenue = 0,
                     !.last_turn_cogs = 0, !.last_turn_gross_profit = 0]
      revenue == units_sold * b.price_per_unit
      cost_of_goods_sold == units_sold * b.production_cost
      gross_profit == revenue - cost_of_goods_sold
  IN  IF units_sold > 0
      THEN [z EXCEPT !.inventory = @ - units_sold, !.money = @ + revenue,
                     !.last_turn_sales_units = units_sold,
                     !.last_turn_revenue = revenue,
                     !.last_turn_cogs = cost_of_goods_sold,
                     !.last_turn_gross_profit = gross_profit,
                     !.total_gross_profit = @ + gross_profit]
      ELSE z

\* process_sales without the inventory update of line 127
process_sales_keeping_stock(b, units_sold) ==
  LET z == [b EXCEPT !.last_turn_sales_units = 0, !.last_turn_revenue = 0,
                     !.last_turn_cogs = 0, !.last_turn_gross_profit = 0]
      revenue == units_sold * b.price_per_unit
      cost_of_goods_sold == units_sold * b.production_cost
      gross_profit == revenue - cost_of_goods_sold
  IN  IF units_sold > 0 /\ units_sold <= b.inventory
      THEN [z EXCEPT !.money = @ + revenue,
                     !.last_turn_sales_units = units_sold,
                     !.last_turn_revenue = revenue,
                     !.last_turn_cogs = cost_of_goods_sold,
                     !.last_turn_gross_profit = gross_profit,
                     !.total_gross_profit = @ + gross_profit]
      ELSE z

\* lines 120-132
process_sales(b, units_sold) ==
  LET z == [b EXCEPT !.last_turn_sales_units = 0, !.last_turn_revenue = 0,
                     !.last_turn_cogs = 0, !.last_turn_gross_profit = 0]
      revenue == units_sold * b.price_per_unit
      cost_of_goods_sold == units_sold * b.production_cost
      gross_profit == revenue - cost_of_goods_sold
  IN  IF units_sold > 0 /\ units_sold <= b.inventory
      THEN [z EXCEPT !.inventory = @ - units_sold, !.money = @ + revenue,
                     !.last_turn_sales_units = units_sold,
                     !.last_turn_revenue = revenue,
                     !.last_turn_cogs = cost_of_goods_sold,
                     !.last_turn_gross_profit = gross_profit,
                     !.total_gross_profit = @ + gross_profit]
      ELSE z

\* is_insolvent with `or` in place of the `and` of line 135
is_insolvent_either(b) == calculate_net_worth(b) < 0 \/ b.money < 0

\* the value check_bankruptcy returns
is_insolvent(b) == calculate_net_worth(b) < 0 /\ b.money < 0

\* check_bankruptcy assigning the outcome of the test to the flag
check_bankruptcy_assigning(b) == [b EXCEPT !.bankrupt = is_insolvent(b)]

check_bankruptcy(b) ==
  IF is_insolvent(b) THEN [b EXCEPT !.bankrupt = TRUE] ELSE b

\* reset_turn_spending_trackers clearing nothing
keep_turn_spending_trackers(b) == b

reset_turn_spending_trackers(b) ==
  [b EXCEPT !.last_turn_marketing_spent = 0, !.last_turn_rnd_spent = 0,
            !.last_turn_hiring_cost = 0, !.last_turn_firing_cost = 0,
            !.last_turn_loan_repayment = 0]

\* --- AI_Business (lines 143-274) ---
\* difficulty: percent.  money_pct: random.uniform(0.85, 1.0), percent.
\* margin_u: random.uniform(-0.1, 0.2), percent.
\* target_inventory_ratio: percent; investment_aggressiveness and
\* pricing_margin: 1/10000.
AI_Business(name, difficulty, money_pct, margin_u) ==
  [ Business(name, TRUE, INITIAL_MONEY * money_pct) EXCEPT
      !.difficulty = difficulty,
      !.target_inventory_ratio = 150 + ((difficulty - 50) * 4) \div 10,
      !.investment_aggressiveness = 1000 + difficulty * 15,
      !.pricing_margin = 15000 + margin_u * (100 + difficulty),
      !.min_target_inventory =
          Max2(5, (INITIAL_WORKERS * MAX_PROD_PER_WORKER * 2) \div 10) ]

\* line 171, cents
required_cash_buffer(b, salary) ==
  b.workers * salary * 100 + (b.loan_amount * LOAN_INTEREST_RATE) \div 1200 + 50000

\* lines 174-180: predicted demand in hundredths of a unit.  u: the uniform
\* factor drawn, percent (0.8..1.2 with a sales history, 0.7..1.1 without).
predicted_demand(b, market_trend, u) ==
  IF b.last_turn_sales_units > 0
  THEN (b.last_turn_sales_units * market_trend * u) \div 100
  ELSE LET base_guess == (max_production_capacity(b) * (4000 + 30 * b.difficulty)) \div 100
       IN  Max2(0, (base_guess * market_trend * u) \div 10000)

\* lines 182-183
target_inventory(b, market_trend, u) ==
  Max2(b.min_target_inventory,
       (predicted_demand(b, market_trend, u) * b.target_inventory_ratio) \div 10000)

\* line 184
needed_production(b, market_trend, u) ==
  Max2(0, target_inventory(b, market_trend, u) - b.inventory)

\* lines 185-192 without the throttle of lines 188-190
produce_units_unthrottled(b, market_trend, u, salary) ==
  LET affordable_production ==
        IF b.production_cost > 0 THEN b.money \div b.production_cost ELSE 0
  IN  Max2(0, Min3(needed_production(b, market_trend, u),
                   max_production_capacity(b), affordable_production))

\* lines 185-192
produce_units(b, market_trend, u, salary) ==
  LET affordable_production ==
        IF b.production_cost > 0 THEN b.money \div b.production_cost ELSE 0
      first == Min3(needed_production(b, market_trend, u),
                    max_production_capacity(b), affordable_production)
      buffer == required_cash_buffer(b, salary)
      affordable_leaving_buffer ==
        IF b.production_cost > 0 THEN (b.money - buffer) \div b.production_cost ELSE 0
      throttled ==
        IF first > 0 /\ b.inventory > 0 /\ b.money - first * b.production_cost < buffer
        THEN Max2(0, Min2(first, affordable_leaving_buffer))
        ELSE first
  IN  Max2(0, throttled)

\* step 1, lines 193-194
md_production(b, market_trend, u, salary) ==
  LET n == produce_units(b, market_trend, u, salary)
  IN  [b EXCEPT !.money = @ - n * b.production_cost, !.inventory = @ + n]

\* step 2 with line 201 reading int(base_price * price_diff_factor), without
\* max(production_cost + 1, ...)
md_pricing_unfloored(b, target, player_price, down, up) ==
  LET margin_price == (b.production_cost * b.pricing_margin) \div 10000
      base_price ==
        IF b.inventory * 10 > target * 15 THEN (margin_price * down) \div 100
        ELSE IF b.inventory * 10 < target * 7 /\ b.inventory > 0
             THEN (margin_price * up) \div 100
             ELSE margin_price
      scaled ==
        IF base_price >= 100
        THEN base_price * 10000 + (player_price - base_price) * b.difficulty * 15
        ELSE base_price * 10000
             + (base_price * (player_price - base_price) * b.difficulty * 15) \div 100
  IN  [b EXCEPT !.price_per_unit = TruncDiv(scaled, 1000000) * 100]

\* step 2, lines 197-201.  b: the firm after step 1; target: target_inventory;
\* down, up: the factors drawn from (0.9, 0.98) and (1.02, 1.1), percent.
md_pricing(b, target, player_price, down, up) ==
  LET margin_price == (b.production_cost * b.pricing_margin) \div 10000
      base_price ==
        IF b.inventory * 10 > target * 15 THEN (margin_price * down) \div 100
        ELSE IF b.inventory * 10 < target * 7 /\ b.inventory > 0
             THEN (margin_price * up) \div 100
             ELSE margin_price
      \* base_price * price_diff_factor, in 1/10000 cent
      scaled ==
        IF base_price >= 100
        THEN base_price * 10000 + (player_price - base_price) * b.difficulty * 15
        ELSE base_price * 10000
             + (base_price * (player_price - base_price) * b.difficulty * 15) \div 100
  IN  [b EXCEPT !.price_per_unit =
         Max2(b.production_cost + 100, TruncDiv(scaled, 1000000) * 100)]

\* lines 204-206
target_workers(needed, slack) ==
  LET needed_workers ==
        IF MAX_PROD_PER_WORKER > 0
        THEN CeilDiv(needed * 12 + 50, 10 * Max2(1, MAX_PROD_PER_WORKER))
        ELSE 0
  IN  Max2(1, needed_workers + slack)

\* step 3 with line 218 reading "if True:": workers are fired whatever the
\* cash is
md_staffing_unfunded(b, needed, slack, salary, buffer) ==
  LET target == target_workers(needed, slack)
      workers_to_hire == target - b.workers
      potential_hire_cost == workers_to_hire * HIRING_COST_PER_WORKER * 100
      workers_to_fire == b.workers - target
      potential_fire_cost == workers_to_fire * FIRING_COST_PER_WORKER * 100
  IN  IF target > b.workers
      THEN IF b.money > potential_hire_cost + target * salary * 100 + 200000
           THEN [b EXCEPT !.money = @ - potential_hire_cost, !.workers = target,
                          !.last_turn_hiring_cost = potential_hire_cost,
                          !.last_turn_firing_cost = 0]
           ELSE [b EXCEPT !.last_turn_hiring_cost = 0, !.last_turn_firing_cost = 0]
      ELSE IF target < b.workers
           THEN [b EXCEPT !.money = @ - potential_fire_cost, !.workers = target,
                          !.last_turn_hiring_cost = 0,
                          !.last_turn_firing_cost = potential_fire_cost]
           ELSE [b EXCEPT !.last_turn_hiring_cost = 0, !.last_turn_firing_cost = 0]

\* step 3, lines 208-222.  b: the firm after step 2; buffer: required_cash_buffer
\* of the firm as it was when make_decisions started.
md_staffing(b, needed, slack, salary, buffer) ==
  LET target == target_workers(needed, slack)
      workers_to_hire == target - b.workers
      potential_hire_cost == workers_to_hire * HIRING_COST_PER_WORKER * 100
      workers_to_fire == b.workers - target
      potential_fire_cost == workers_to_fire * FIRING_COST_PER_WORKER * 100
  IN  IF target > b.workers
      THEN IF b.money > potential_hire_cost + target * salary * 100 + 200000
           THEN [b EXCEPT !.money = @ - potential_hire_cost, !.workers = target,
                          !.last_turn_hiring_cost = potential_hire_cost,
                          !.last_turn_firing_cost = 0]
           ELSE [b EXCEPT !.last_turn_hiring_cost = 0, !.last_turn_firing_cost = 0]
      ELSE IF target < b.workers /\ b.money > potential_fire_cost + buffer
           THEN [b EXCEPT !.money = @ - potential_fire_cost, !.workers = target,
                          !.last_turn_hiring_cost = 0,
                          !.last_turn_firing_cost = potential_fire_cost]
           ELSE [b EXCEPT !.last_turn_hiring_cost = 0, !.last_turn_firing_cost = 0]

\* the breakthrough loop with line 255 reading production_cost - randint(1, 2),
\* without max(5, ...)
RECURSIVE rnd_breakthroughs_unfloored(_, _, _)
rnd_breakthroughs_unfloored(b, roll, reduction) ==
  IF b.rnd_points < RND_POINTS_PER_UPGRADE THEN b
  ELSE LET c == [b EXCEPT !.rnd_points = @ - RND_POINTS_PER_UPGRADE]
           improve_quality_chance == IF c.product_quality < 7 THEN 60 ELSE 30
       IN  IF c.product_quality >= 10 /\ c.production_cost <= 500 THEN c
           ELSE IF roll < improve_quality_chance /\ c.product_quality < 10
                THEN rnd_breakthroughs_unfloored([c EXCEPT !.product_quality = @ + 1],
                                                 roll, reduction)
           ELSE IF c.production_cost > 500
                THEN rnd_breakthroughs_unfloored(
                       [c EXCEPT !.production_cost = @ - reduction * 100],
                       roll, reduction)
           ELSE IF c.product_quality < 10
                THEN rnd_breakthroughs_unfloored([c EXCEPT !.product_quality = @ + 1],
                                                 roll, reduction)
           ELSE rnd_breakthroughs_unfloored(c, roll, reduction)

\* lines 249-256: the R&D breakthrough loop.  roll: random.random(), percent;
\* reduction: random.randint(1, 2); every round of one call draws the same.
RECURSIVE rnd_breakthroughs(_, _, _)
rnd_breakthroughs(b, roll, reduction) ==
  IF b.rnd_points < RND_POINTS_PER_UPGRADE THEN b
  ELSE LET c == [b EXCEPT !.rnd_points = @ - RND_POINTS_PER_UPGRADE]
           improve_quality_chance == IF c.product_quality < 7 THEN 60 ELSE 30
       IN  IF c.product_quality >= 10 /\ c.production_cost <= 500 THEN c
           ELSE IF roll < improve_quality_chance /\ c.product_quality < 10
                THEN rnd_breakthroughs([c EXCEPT !.product_quality = @ + 1],
                                       roll, reduction)
           ELSE IF c.production_cost > 500
                THEN rnd_breakthroughs(
                       [c EXCEPT !.production_cost = Max2(500, @ - reduction * 100)],
                       roll, reduction)
           ELSE IF c.product_quality < 10
                THEN rnd_breakthroughs([c EXCEPT !.product_quality = @ + 1],
                                       roll, reduction)
           ELSE rnd_breakthroughs(c, roll, reduction)

\* step 4, lines 225-259.  b: the firm after step 3; split: random.uniform(0.4,
\* 0.7), percent.
md_investment(b, split, roll, reduction, buffer) ==
  LET investment_budget == ((b.money \div 100) * b.investment_aggressiveness) \div 100
      marketing_budget == (investment_budget * split) \div 100
      rnd_budget == (investment_budget * (100 - split)) \div 100
      current_marketing_cost == MarketingCostTable[b.marketing_level] * 100
      do_marketing == /\ b.marketing_level < 10
                      /\ marketing_budget >= current_marketing_cost
                      /\ b.money - marketing_budget > buffer
      marketing_investment_made == IF do_marketing THEN current_marketing_cost ELSE 0
      m == IF do_marketing
           THEN [b EXCEPT !.money = @ - current_marketing_cost,
                          !.marketing_level = @ + 1]
           ELSE b
      current_rnd_cost_per_point ==
        (RND_COST_FACTOR * (m.product_quality * 100 + Max2(100, 2000 - m.production_cost)))
           \div Max2(1, RND_POINTS_PER_UPGRADE) + 100
      cost_per_point == Max2(1, current_rnd_cost_per_point)
      points_gained == rnd_budget \div cost_per_point
      actual_rnd_cost == points_gained * cost_per_point
      do_rnd == /\ rnd_budget > 0
                /\ m.money - marketing_investment_made - rnd_budget > buffer
                /\ actual_rnd_cost <= m.money - marketing_investment_made - buffer
      rnd_investment_made == IF do_rnd THEN actual_rnd_cost ELSE 0
      r == IF do_rnd
           THEN rnd_breakthroughs([m EXCEPT !.money = @ - actual_rnd_cost,
                                            !.rnd_points = @ + points_gained],
                                  roll, reduction)
           ELSE m
  IN  IF b.money > buffer + 100000 /\ investment_budget > 30000
      THEN [r EXCEPT !.last_turn_marketing_spent = marketing_investment_made,
                     !.last_turn_rnd_spent = rnd_investment_made]
      ELSE [b EXCEPT !.last_turn_marketing_spent = 0, !.last_turn_rnd_spent = 0]

\* the loan drawn in step 5 (lines 264-267), cents
loan_to_take(b, buffer) ==
  IF b.money < buffer /\ get_max_loan(b) > 50000
  THEN Min2(Max2(50000, buffer - b.money), get_max_loan(b))
  ELSE 0

\* step 5, lines 262-274.  b: the firm after step 4.
md_loans(b, buffer) ==
  LET repay_amount == Max2(0, Min2(b.loan_amount, b.money - buffer - 500000))
  IN  IF b.money < buffer /\ get_max_loan(b) > 50000
      THEN [b EXCEPT !.loan_amount = @ + loan_to_take(b, buffer),
                     !.money = @ + loan_to_take(b, buffer),
                     !.last_turn_loan_repayment = 0]
      ELSE IF /\ b.loan_amount > 0
              /\ b.money * 10 > b.loan_amount * 15 + (buffer + 1000000) * 10
              /\ repay_amount > 0
           THEN [b EXCEPT !.loan_amount = @ - repay_amount,
                          !.money = @ - repay_amount,
                          !.last_turn_loan_repayment = repay_amount]
           ELSE [b EXCEPT !.last_turn_loan_repayment = 0]

\* The random draws of one make_decisions call.
\* demand: percent of the 0.4-wide range above its lower end (0.8 with a sales
\* history, 0.7 without); down, up, split, roll: percent; slack: randint(-1, 1);
\* reduction: randint(1, 2).
demand_factor(b, d) == IF b.last_turn_sales_units > 0 THEN 80 + d ELSE 70 + d

\* the firm after steps 1..k of make_decisions (lines 166-274)
md_after(b, k, market_trend, player_price, salary, d) ==
  LET u == demand_factor(b, d.demand)
      buffer == required_cash_buffer(b, salary)
      s0 == reset_turn_spending_trackers(b)
      s1 == md_production(s0, market_trend, u, salary)
      s2 == md_pricing(s1, target_inventory(b, market_trend, u), player_price,
                       d.down, d.up)
      s3 == md_staffing(s2, needed_production(b, market_trend, u), d.slack,
                        salary, buffer)
      s4 == md_investment(s3, d.split, d.roll, d.reduction, buffer)
      s5 == md_loans(s4, buffer)
  IN  CASE k = 0 -> s0 [] k = 1 -> s1 [] k = 2 -> s2 [] k = 3 -> s3
        [] k = 4 -> s4 [] OTHER -> s5

make_decisions(b, market_trend, player_price, salary, d) ==
  IF b.bankrupt THEN b ELSE md_after(b, 5, market_trend, player_price, salary, d)

\* --- Market (lines 277-392) ---
\* trend: percent.  change: random.uniform(-0.05, 0.05), percent points.
update_trend(t, change) == Max2(50, Min2(150, t + change))

RECURSIVE SumOver(_, _, _)
\* the sum of f[i] over the indices i of the sequence idx, from position k on
SumOver(f, idx, k) == IF k > Len(idx) THEN 0 ELSE f[idx[k]] + SumOver(f, idx, k + 1)

\* a set of roster indices as a sequence, in roster order
InRosterOrder(idx) ==
  [k \in 1..Cardinality(idx) |->
     CHOOSE i \in idx : Cardinality({j \in idx : j < i}) = k - 1]

NotBankrupt(b) == ~b.bankrupt
\* the test of line 312 without its first half
CanSellWhenBankrupt(b) == b.inventory > 0
CanSell(b) == ~b.bankrupt /\ b.inventory > 0

\* line 292 and line 312, as roster indices
active_biz(bs) == InRosterOrder({i \in 1..Len(bs) : NotBankrupt(bs[i])})
active_businesses(bs) == InRosterOrder({i \in 1..Len(bs) : CanSell(bs[i])})

\* lines 289-306.  base: current_base_demand; noise: random.uniform(0.9, 1.1),
\* percent.  The result is in units.
calculate_total_potential_demand(bs, base, t, noise) ==
  LET active == active_biz(bs)
      n == Len(active)
      avg_price == SumOver([i \in 1..Len(bs) |-> bs[i].price_per_unit], active, 1) \div n
      quality6 == (SumOver([i \in 1..Len(bs) |-> bs[i].product_quality], active, 1) * 6) \div n
      marketing6 == (SumOver([i \in 1..Len(bs) |-> bs[i].marketing_level], active, 1) * 6) \div n
      price_factor == PriceFactorTable[PriceIndex(avg_price)]
      quality_factor == QualityFactorTable[Max2(6, Min2(60, quality6)) - 5]
      marketing_factor == MarketingFactorTable[Max2(6, Min2(60, marketing6)) - 5]
      \* demand in 1/100 unit, one factor after the other
      d1 == base * t
      d2 == (d1 * price_factor) \div 100
      d3 == (d2 * quality_factor) \div 100
      d4 == (d3 * marketing_factor) \div 100
      d5 == (d4 * noise) \div 100
  IN  IF n = 0 THEN 0 ELSE Max2(0, d5 \div 100)

\* price_score with the price table read backwards: dearer scores higher
price_score_rising(b) ==
  PriceScoreTable[Len(PriceScoreTable) + 1 - PriceIndex(b.price_per_unit)]

\* lines 317-319 and the bracket of line 321: the score before the jitter, 1/10000
price_score(b) == PriceScoreTable[PriceIndex(b.price_per_unit)]
base_score(b) ==
  (((price_score(b) * QualityScoreTable[b.product_quality]) \div 100)
      * MarketingScoreTable[b.marketing_level]) \div 100 + 100

\* line 321.  jitter: random.uniform(0.95, 1.05), percent.
score_of(b, jitter) == (base_score(b) * jitter) \div 100

\* lines 316-323: the scores dict, keyed by name (a later firm of the same name
\* overwrites an earlier one); 0 for a name that is not active, as scores.get
Scores(bs, jit) ==
  [nm \in {bs[i].name : i \in 1..Len(bs)} |->
     LET act == {i \in 1..Len(bs) : CanSell(bs[i]) /\ bs[i].name = nm}
     IN  IF act = {} THEN 0
         ELSE LET last == CHOOSE i \in act : \A j \in act : j <= i
              IN  score_of(bs[last], jit[last])]

\* sorted_businesses without reverse=True: by ascending score
sorted_businesses_ascending(bs, sc) ==
  LET act == {i \in 1..Len(bs) : CanSell(bs[i])}
      Before(i, j) == \/ sc[bs[i].name] < sc[bs[j].name]
                      \/ sc[bs[i].name] = sc[bs[j].name] /\ i < j
      rank(i) == Cardinality({j \in act : Before(j, i)}) + 1
  IN  [k \in 1..Cardinality(act) |-> CHOOSE i \in act : rank(i) = k]

\* line 330: sorted(active_businesses, key=score, reverse=True), a stable sort:
\* the roster indices of the active firms, by descending score, ties in roster order
sorted_businesses(bs, sc) ==
  LET act == {i \in 1..Len(bs) : CanSell(bs[i])}
      Before(i, j) == \/ sc[bs[i].name] > sc[bs[j].name]
                      \/ sc[bs[i].name] = sc[bs[j].name] /\ i < j
      rank(i) == Cardinality({j \in act : Before(j, i)}) + 1
  IN  [k \in 1..Cardinality(act) |-> CHOOSE i \in act : rank(i) = k]

\* proportional_pass without the inventory limit of line 338
RECURSIVE proportional_pass_uncapped(_, _, _, _, _, _, _)
proportional_pass_uncapped(bs, sc, total_score, order, total_demand, k, temp) ==
  IF k > Len(order) THEN temp
  ELSE LET b == bs[order[k]]
           potential_sales == (total_demand * sc[b.name]) \div total_score
           actual_sales == Min2(potential_sales, total_demand - temp.allocated)
       IN  proportional_pass_uncapped(bs, sc, total_score, order, total_demand,
             k + 1,
             [sales |-> [nm \in DOMAIN temp.sales |->
                           IF nm = b.name THEN actual_sales ELSE temp.sales[nm]],
              allocated |-> temp.allocated + actual_sales])

\* proportional_pass with math.ceil for the math.floor of line 337
RECURSIVE proportional_pass_ceiling(_, _, _, _, _, _, _)
proportional_pass_ceiling(bs, sc, total_score, order, total_demand, k, temp) ==
  IF k > Len(order) THEN temp
  ELSE LET b == bs[order[k]]
           potential_sales == CeilDiv(total_demand * sc[b.name], total_score)
           actual_sales == Min3(b.inventory, potential_sales,
                                total_demand - temp.allocated)
       IN  proportional_pass_ceiling(bs, sc, total_score, order, total_demand,
             k + 1,
             [sales |-> [nm \in DOMAIN temp.sales |->
                           IF nm = b.name THEN actual_sales ELSE temp.sales[nm]],
              allocated |-> temp.allocated + actual_sales])

\* lines 333-340: the proportional pass over sorted firms k.. with `allocated`
\* units given so far; temp_sales is keyed by name
RECURSIVE proportional_pass(_, _, _, _, _, _, _)
proportional_pass(bs, sc, total_score, order, total_demand, k, temp) ==
  IF k > Len(order) THEN temp
  ELSE LET b == bs[order[k]]
           potential_sales == (total_demand * sc[b.name]) \div total_score
           total_allocated == temp.allocated
           actual_sales == Min3(b.inventory, potential_sales,
                                total_demand - total_allocated)
       IN  proportional_pass(bs, sc, total_score, order, total_demand, k + 1,
             [sales |-> [nm \in DOMAIN temp.sales |->
                           IF nm = b.name THEN actual_sales ELSE temp.sales[nm]],
              allocated |-> total_allocated + actual_sales])

\* remainder_pass without the inventory test of line 350
RECURSIVE remainder_pass_unchecked(_, _, _, _, _)
remainder_pass_unchecked(bs, order, k, sales, remaining) ==
  IF k > Len(order) \/ remaining <= 0 THEN sales
  ELSE remainder_pass_unchecked(bs, order, k + 1,
         [sales EXCEPT ![bs[order[k]].name] = @ + 1], remaining - 1)

\* lines 346-352: one sweep over the sorted firms, one unit each at most
RECURSIVE remainder_pass(_, _, _, _, _)
remainder_pass(bs, order, k, sales, remaining) ==
  IF k > Len(order) \/ remaining <= 0 THEN sales
  ELSE LET b == bs[order[k]]
       IN  IF b.inventory > sales[b.name]
           THEN remainder_pass(bs, order, k + 1,
                  [sales EXCEPT ![b.name] = @ + 1], remaining - 1)
           ELSE remainder_pass(bs, order, k + 1, sales, remaining)

\* lines 308-358.  jit: the jitter drawn for each roster index.
calculate_market_shares(bs, total_demand, jit) ==
  LET names == {bs[i].name : i \in 1..Len(bs)}
      zero == [nm \in names |-> 0]
      sc == Scores(bs, jit)
      order == sorted_businesses(bs, sc)
      \* line 323 adds every active firm's score, also under a repeated name
      total_score == SumOver([i \in 1..Len(bs) |-> score_of(bs[i], jit[i])], order, 1)
      first == proportional_pass(bs, sc, total_score, order, total_demand, 1,
                 [sales |-> zero, allocated |-> 0])
      remaining_demand_after_proportional == total_demand - first.allocated
  IN  IF Len(order) = 0 \/ total_score <= 0 THEN zero
      ELSE remainder_pass(bs, order, 1, first.sales,
                          remaining_demand_after_proportional)

\* lines 360-392: the event kinds; "NONE" is 0.15 <= roll <= 0.85
EventTypes == { "NONE", "RECESSION", "SUPPLY_ISSUE", "WAGE_HIKE",
                "BOOM", "POSITIVE_PR_PLAYER", "TECH_BREAKTHROUGH" }

\* generate_event without the tests of lines 371, 384 and 391: the events reach
\* bankrupt firms too
generate_event_unguarded(bs, t, salary, ev, mag) ==
  LET quiet == [businesses |-> bs, trend |-> t, worker_salary |-> salary,
                last_event |-> "No significant market events."]
  IN  CASE ev = "RECESSION" /\ t > 70 ->
             [quiet EXCEPT !.trend = (t * mag) \div 100,
                           !.last_event = "Economic downturn!"]
        [] ev = "SUPPLY_ISSUE" ->
             [quiet EXCEPT !.businesses =
                  [i \in 1..Len(bs) |->
                     [bs[i] EXCEPT !.production_cost = (@ * mag) \div 100]],
                !.last_event = "Supply chain disruption!"]
        [] ev = "WAGE_HIKE" ->
             [quiet EXCEPT !.worker_salary = (salary * mag) \div 100,
                           !.last_event = "Wage hike!"]
        [] ev = "BOOM" /\ t < 130 ->
             [quiet EXCEPT !.trend = (t * mag) \div 100,
                           !.last_event = "Economic boom!"]
        [] ev = "POSITIVE_PR_PLAYER" ->
             IF bs[1].marketing_level < 10
             THEN [quiet EXCEPT !.businesses =
                     [bs EXCEPT ![1].marketing_level = Min2(10, @ + mag)],
                   !.last_event = "Positive PR (Marketing Lvl Up)."]
             ELSE [quiet EXCEPT !.last_event = "Market conditions stable."]
        [] ev = "TECH_BREAKTHROUGH" ->
             [quiet EXCEPT !.businesses =
                  [i \in 1..Len(bs) |->
                     [bs[i] EXCEPT !.rnd_points = @ + mag]],
                !.last_event = "Tech breakthrough!"]
        [] OTHER -> quiet

\* lines 366-392: the market after event `ev` of magnitude `mag` (RECESSION,
\* SUPPLY_ISSUE, WAGE_HIKE, BOOM: the factor drawn, percent; POSITIVE_PR_PLAYER:
\* randint(1, 2); TECH_BREAKTHROUGH: randint(30, 60))
generate_event(bs, t, salary, ev, mag) ==
  LET quiet == [businesses |-> bs, trend |-> t, worker_salary |-> salary,
                last_event |-> "No significant market events."]
  IN  CASE ev = "RECESSION" /\ t > 70 ->
             [quiet EXCEPT !.trend = (t * mag) \div 100,
                           !.last_event = "Economic downturn!"]
        [] ev = "SUPPLY_ISSUE" ->
             [quiet EXCEPT !.businesses =
                  [i \in 1..Len(bs) |->
                     IF ~bs[i].bankrupt
                     THEN [bs[i] EXCEPT !.production_cost = (@ * mag) \div 100]
                     ELSE bs[i]],
                !.last_event = "Supply chain disruption!"]
        [] ev = "WAGE_HIKE" ->
             [quiet EXCEPT !.worker_salary = (salary * mag) \div 100,
                           !.last_event = "Wage hike!"]
        [] ev = "BOOM" /\ t < 130 ->
             [quiet EXCEPT !.trend = (t * mag) \div 100,
                           !.last_event = "Economic boom!"]
        [] ev = "POSITIVE_PR_PLAYER" ->
             IF ~bs[1].bankrupt /\ bs[1].marketing_level < 10
             THEN [quiet EXCEPT !.businesses =
                     [bs EXCEPT ![1].marketing_level = Min2(10, @ + mag)],
                   !.last_event = "Positive PR (Marketing Lvl Up)."]
             ELSE [quiet EXCEPT !.last_event = "Market conditions stable."]
        [] ev = "TECH_BREAKTHROUGH" ->
             [quiet EXCEPT !.businesses =
                  [i \in 1..Len(bs) |->
                     IF ~bs[i].bankrupt
                     THEN [bs[i] EXCEPT !.rnd_points = @ + mag]
                     ELSE bs[i]],
                !.last_event = "Tech breakthrough!"]
        [] OTHER -> quiet

\* --- Game.get_player_actions (lines 491-610) ---
\* A decision d: hire, fire, produce (units), price, marketing, rnd, take_loan,
\* repay (whole dollars, as get_int_input reads them), prefer_quality (the focus
\* chosen at an R&D breakthrough when both are offered) and reduction
\* (random.randint(1, 3)).

\* lines 499-504
max_affordable_hires(b) ==
  LET cash_available == b.money - 50000
  IN  IF HIRING_COST_PER_WORKER > 0
      THEN Max2(0, IF cash_available > 0
                   THEN cash_available \div (HIRING_COST_PER_WORKER * 100) ELSE 0)
      ELSE 1000

\* lines 512-518
can_fire(b) ==
  LET max_fires == b.workers
      affordable_severance == b.money - 50000
      max_affordable_fires ==
        IF FIRING_COST_PER_WORKER > 0
           /\ affordable_severance < max_fires * FIRING_COST_PER_WORKER * 100
        THEN IF affordable_severance > 0
             THEN affordable_severance \div (FIRING_COST_PER_WORKER * 100) ELSE 0
        ELSE max_fires
  IN  Min2(max_fires, max_affordable_fires)

\* lines 530-532
max_produce(b) ==
  Min2(max_production_capacity(b),
       IF b.production_cost > 0 THEN b.money \div b.production_cost ELSE 0)

\* int(player.money), whole dollars (lines 550, 564)
int_money(b) == TruncDiv(b.money, 100)

\* line 545, dollars
player_marketing_cost(b) == MarketingCostTable[b.marketing_level]

\* line 560, dollars
player_rnd_cost(b) ==
  (RND_COST_FACTOR * (b.product_quality * 100 + Max2(100, 2500 - b.production_cost)))
     \div 100

\* lines 573-588: the player's breakthrough loop
RECURSIVE player_breakthroughs(_, _, _)
player_breakthroughs(b, prefer_quality, reduction) ==
  IF b.rnd_points < RND_POINTS_PER_UPGRADE THEN b
  ELSE LET c == [b EXCEPT !.rnd_points = @ - RND_POINTS_PER_UPGRADE]
           quality_cap == c.product_quality >= 10
           cost_floor == c.production_cost <= 500
       IN  IF quality_cap /\ cost_floor THEN [c EXCEPT !.rnd_points = 0]
           ELSE IF ~quality_cap /\ (prefer_quality \/ cost_floor)
                THEN player_breakthroughs([c EXCEPT !.product_quality = @ + 1],
                                          prefer_quality, reduction)
                ELSE player_breakthroughs(
                       [c EXCEPT !.production_cost = Max2(500, @ - reduction * 100)],
                       prefer_quality, reduction)

\* 1. staffing, hiring (lines 505-509)
pa_hire(b, d) ==
  IF d.hire > 0
  THEN [b EXCEPT !.money = @ - d.hire * HIRING_COST_PER_WORKER * 100,
                 !.workers = @ + d.hire,
                 !.last_turn_hiring_cost = d.hire * HIRING_COST_PER_WORKER * 100]
  ELSE b

\* 1. staffing, firing (lines 511-526)
pa_fire(b, d) ==
  IF b.workers > 0 /\ d.fire > 0 /\ d.fire <= can_fire(b)
  THEN [b EXCEPT !.money = @ - d.fire * FIRING_COST_PER_WORKER * 100,
                 !.workers = @ - d.fire,
                 !.last_turn_firing_cost = d.fire * FIRING_COST_PER_WORKER * 100]
  ELSE b

\* 2. production (lines 530-538)
pa_produce(b, d) ==
  IF d.produce > 0
  THEN [b EXCEPT !.money = @ - d.produce * b.production_cost,
                 !.inventory = @ + d.produce]
  ELSE b

\* 3. pricing (line 542)
pa_price(b, d) == [b EXCEPT !.price_per_unit = d.price * 100]

\* 4. marketing (lines 545-557)
pa_marketing(b, d) ==
  IF b.marketing_level < 10 /\ d.marketing >= player_marketing_cost(b)
  THEN [b EXCEPT !.marketing_level = @ + 1,
                 !.money = @ - player_marketing_cost(b) * 100,
                 !.last_turn_marketing_spent = player_marketing_cost(b) * 100]
  ELSE [b EXCEPT !.last_turn_marketing_spent = 0]

\* 5. R&D (lines 560-590)
pa_rnd(b, d) ==
  LET points_gained == (d.rnd * RND_POINTS_PER_UPGRADE) \div player_rnd_cost(b)
      actual_cost == (points_gained * player_rnd_cost(b) * 100) \div RND_POINTS_PER_UPGRADE
  IN  IF d.rnd > 0 /\ actual_cost <= b.money
      THEN player_breakthroughs(
             [b EXCEPT !.rnd_points = @ + points_gained, !.money = @ - actual_cost,
                       !.last_turn_rnd_spent = actual_cost],
             d.prefer_quality, d.reduction)
      ELSE [b EXCEPT !.last_turn_rnd_spent = 0]

\* 6. loan management, a new loan (lines 594-599)
pa_take_loan(b, d) ==
  IF d.take_loan > 0
  THEN [b EXCEPT !.loan_amount = @ + d.take_loan * 100, !.money = @ + d.take_loan * 100]
  ELSE b

\* 6. loan management, repayment (lines 600-606)
pa_repay(b, d) ==
  IF b.loan_amount > 0 /\ d.repay > 0
  THEN [b EXCEPT !.loan_amount = @ - d.repay * 100, !.money = @ - d.repay * 100,
                 !.last_turn_loan_repayment = d.repay * 100]
  ELSE b

\* the player after the first k prompts of get_player_actions
pa_after(b, k, d) ==
  LET p0 == reset_turn_spending_trackers(b)
      p1 == pa_hire(p0, d)
      p2 == pa_fire(p1, d)
      p3 == pa_produce(p2, d)
      p4 == pa_price(p3, d)
      p5 == pa_marketing(p4, d)
      p6 == pa_rnd(p5, d)
      p7 == pa_take_loan(p6, d)
      p8 == pa_repay(p7, d)
  IN  CASE k = 0 -> p0 [] k = 1 -> p1 [] k = 2 -> p2 [] k = 3 -> p3 [] k = 4 -> p4
        [] k = 5 -> p5 [] k = 6 -> p6 [] k = 7 -> p7 [] OTHER -> p8

\* get_int_input (lines 43-54) returns only a value v with lo <= v <= hi
in_range(v, lo, hi) == lo <= v /\ v <= hi

\* every prompt of get_player_actions accepts its field of d; a prompt that is
\* not shown reads 0
decision_accepted(b, d) ==
  /\ in_range(d.hire, 0, max_affordable_hires(pa_after(b, 0, d)))
  /\ IF pa_after(b, 1, d).workers > 0
     THEN in_range(d.fire, 0, pa_after(b, 1, d).workers) ELSE d.fire = 0
  /\ in_range(d.produce, 0, max_produce(pa_after(b, 2, d)))
  /\ d.price >= 1
  /\ IF pa_after(b, 4, d).marketing_level < 10
     THEN in_range(d.marketing, 0, int_money(pa_after(b, 4, d))) ELSE d.marketing = 0
  /\ in_range(d.rnd, 0, int_money(pa_after(b, 5, d)))
  /\ in_range(d.take_loan, 0, TruncDiv(get_max_loan(pa_after(b, 6, d)), 100))
  /\ IF pa_after(b, 7, d).loan_amount > 0
     THEN in_range(d.repay, 0,
            TruncDiv(Min2(pa_after(b, 7, d).loan_amount, pa_after(b, 7, d).money), 100))
     ELSE d.repay = 0

get_player_actions(b, d) == pa_after(b, 8, d)

\* --- Game (lines 395-769) ---
VARIABLES
  businesses,          \* Game.businesses: the roster, a sequence of firms
  competitors,         \* Game.competitors: the names of the AI firms, in list order
  ai_spawn_counter,    \* Game.ai_spawn_counter
  turn,                \* Game.turn
  game_over,           \* Game.game_over
  outcome,             \* the banner check_game_over printed, "" before
  current_base_demand, \* Market.current_base_demand
  trend,               \* Market.trend, percent
  last_event,          \* Market.last_event
  worker_salary,       \* the global WORKER_SALARY, dollars
  pc,                  \* the position in Game.run / Game.process_turn
  cursor,              \* the index of the competitor whose make_decisions is next
  start_of_turn_loan_balances, \* process_turn's local, name -> loan
  total_demand,        \* process_turn's local
  market_sales,        \* process_turn's local, name -> units
  jitter,              \* the score jitter calculate_market_shares drew, per roster index
  ledger,              \* history: per firm, its cash and lifetime net income when
                       \* the turn began and the turn's cash movements that no
                       \* last_turn_* attribute records
  surprises,           \* how many more draws or decisions may leave their default
  first_turn,          \* the turn the session began with
  calls,               \* method calls made (SpecFirm)
  ret,                 \* the value the last method call returned (SpecFirm)
  snapshot,            \* the save file: the pickled Game, and history about it
  policy               \* AI_Business.make_decisions in progress: its locals, and the
                       \* firm's cash and inventory when it was called (SpecPolicy)

vars == << businesses, competitors, ai_spawn_counter, turn, game_over, outcome,
           current_base_demand, trend, last_event, worker_salary, pc, cursor,
           start_of_turn_loan_balances, total_demand, market_sales, jitter,
           ledger, surprises, first_turn, policy, calls, ret, snapshot >>

\* --- Bounds of the model ---
\* turns resolved in one session
MaxTurnsPlayed == 2
\* draws and decisions of one session that leave their default value
MaxSurprises == 1

\* --- The values a draw or a decision is chosen from (the first is the default) ---
DemandDraws == << 20, 0, 40 >>
DownDraws == << 94, 90 >>
UpDraws == << 106, 110 >>
SlackDraws == << 0, -1, 1 >>
SplitDraws == << 55, 40, 70 >>
RollDraws == << 45, 10, 90 >>
ReductionDraws == << 1, 2 >>
TrendChanges == << 0, -5, 5 >>
NoiseDraws == << 100, 90, 110 >>
JitterDraws == << 100, 95, 105 >>
EventMagnitudes(ev) ==
  CASE ev = "RECESSION" -> {70, 90}
    [] ev = "SUPPLY_ISSUE" -> {105, 120}
    [] ev = "WAGE_HIKE" -> {110, 125}
    [] ev = "BOOM" -> {110, 130}
    [] ev = "POSITIVE_PR_PLAYER" -> {1, 2}
    [] ev = "TECH_BREAKTHROUGH" -> {30, 60}
    [] OTHER -> {0}
SpawnDifficulties == {40, 70}
SpawnMoney == {85, 100}
SpawnMargins == {5}

Values(draws) == {draws[i] : i \in 1..Len(draws)}
\* 1 when a draw left its default
Dev(v, draws) == IF v = draws[1] THEN 0 ELSE 1

\* --- Roster helpers ---
Names(bs) == {bs[i].name : i \in 1..Len(bs)}
IndexOf(bs, nm) == CHOOSE i \in 1..Len(bs) : bs[i].name = nm
\* Game.player_business: the object named "Player Inc."
player_business == businesses[IndexOf(businesses, 0)]

NoLocals ==
  /\ cursor = 0 /\ start_of_turn_loan_balances = << >> /\ total_demand = 0
  /\ market_sales = << >> /\ jitter = << >> /\ ledger = << >>

\* no make_decisions call in progress
NoPolicy ==
  [ required_cash_buffer |-> 0, target_inventory |-> 0, needed_production |-> 0,
    money_at_call |-> 0, inventory_at_call |-> 0 ]

\* --- Save and load (lines 424-442, 608-610, 773-783) ---
\* how many times a new process loads the save file
MaxLoads == 1

\* the attributes of the Game object and of its Market: what pickle.dump(self)
\* writes.  The module's globals are not among them.
GameObject(bs) ==
  [ businesses |-> bs, competitors |-> competitors,
    ai_spawn_counter |-> ai_spawn_counter, turn |-> turn,
    game_over |-> game_over, current_base_demand |-> current_base_demand,
    trend |-> trend, last_event |-> last_event ]

\* no save file.  loads and worker_salary_at_save are history: the loads made so
\* far, and the value the global WORKER_SALARY had when the file was written.
NoSnapshot ==
  [ saved |-> FALSE, loads |-> 0, worker_salary_at_save |-> 0,
    game |-> [ businesses |-> << >>, competitors |-> << >>,
               ai_spawn_counter |-> 0, turn |-> 0, game_over |-> FALSE,
               current_base_demand |-> 0, trend |-> 0, last_event |-> "" ] ]

\* Game.save_game (lines 424-428): the file after the save
save_game(game, file) ==
  [ saved |-> TRUE, loads |-> file.loads, worker_salary_at_save |-> worker_salary,
    game |-> game ]

\* Game.load_game (lines 430-442): the Game object read; the compatibility
\* checks of lines 436-438 find every attribute present
load_game(file) == file.game

\* --- Initial states ---
\* Game.__init__ (lines 397-421): the player, then NUM_INITIAL_COMPETITORS AIs
NewGame(money1) ==
  /\ businesses = << Business(0, FALSE, INITIAL_MONEY * 100),
                     AI_Business(1, 50, money1, 5), AI_Business(2, 70, 100, 5) >>
  /\ competitors = << 1, 2 >>
  /\ ai_spawn_counter = NUM_INITIAL_COMPETITORS
  /\ turn = 1 /\ trend = 100 /\ worker_salary = WORKER_SALARY

\* A game in progress holds whatever its earlier turns have reached.  Such
\* games:
\* turn 40, after a wage hike and one respawn: the player sells from stock, Mk2
\* cannot pay its twelve workers, Mk3 is sound
MidGame ==
  /\ businesses =
       << [ Business(0, FALSE, 600000) EXCEPT
              !.inventory = 40, !.workers = 3, !.price_per_unit = 1800,
              !.product_quality = 4, !.marketing_level = 2, !.loan_amount = 200000,
              !.rnd_points = 100, !.last_turn_sales_units = 25,
              !.last_turn_revenue = 45000, !.last_turn_cogs = 20000,
              !.last_turn_gross_profit = 25000, !.last_turn_salaries = 49500,
              !.last_turn_marketing_spent = 113100, !.last_turn_hiring_cost = 25000,
              !.last_turn_interest_paid = 1666, !.last_turn_net_income = -183266,
              !.total_gross_profit = 310000, !.total_net_income = -150000 ],
          [ AI_Business(2, 70, 100, 5) EXCEPT
              !.money = 50000, !.workers = 12, !.loan_amount = 300000,
              !.price_per_unit = 1300, !.last_turn_salaries = 198000,
              !.last_turn_firing_cost = 50000, !.last_turn_rnd_spent = 30400,
              !.last_turn_interest_paid = 2500, !.last_turn_net_income = -280900,
              !.total_gross_profit = 90000, !.total_net_income = -650000 ],
          [ AI_Business(3, 55, 100, 5) EXCEPT
              !.money = 900000, !.inventory = 30, !.workers = 3,
              !.price_per_unit = 1300, !.product_quality = 5, !.marketing_level = 3,
              !.rnd_points = 80, !.last_turn_sales_units = 20,
              !.last_turn_revenue = 26000, !.last_turn_cogs = 16000,
              !.last_turn_gross_profit = 10000, !.last_turn_salaries = 49500,
              !.last_turn_net_income = -39500,
              !.total_gross_profit = 120000, !.total_net_income = -60000 ] >>
  /\ competitors = << 2, 3 >>
  /\ ai_spawn_counter = 3
  /\ turn = 40 /\ trend = 125 /\ worker_salary = 165

\* the last turn: the player close to the target with quality, marketing and
\* cost at their limits, Mk1 rich enough to repay its loan, Mk2 about to upgrade
EndGame ==
  /\ businesses =
       << [ Business(0, FALSE, 2000000) EXCEPT
              !.inventory = 100, !.workers = 4, !.price_per_unit = 2500,
              !.production_cost = 500, !.product_quality = 10,
              !.marketing_level = 10, !.rnd_points = 60,
              !.last_turn_sales_units = 30, !.last_turn_revenue = 75000,
              !.last_turn_cogs = 15000, !.last_turn_gross_profit = 60000,
              !.last_turn_salaries = 60000, !.last_turn_net_income = 0,
              !.total_gross_profit = 2500000, !.total_net_income = 1400000 ],
          [ AI_Business(1, 50, 100, 5) EXCEPT
              !.money = 3000000, !.inventory = 20, !.workers = 2,
              !.loan_amount = 500000, !.production_cost = 700,
              !.product_quality = 7, !.marketing_level = 5, !.price_per_unit = 1000,
              !.last_turn_sales_units = 10, !.last_turn_revenue = 10000,
              !.last_turn_cogs = 7000, !.last_turn_gross_profit = 3000,
              !.last_turn_salaries = 30000, !.last_turn_interest_paid = 4166,
              !.last_turn_net_income = -31166,
              !.total_gross_profit = 900000, !.total_net_income = 2000000 ],
          [ AI_Business(2, 70, 100, 5) EXCEPT
              !.money = 1500000, !.inventory = 10, !.workers = 2,
              !.production_cost = 550, !.product_quality = 10,
              !.marketing_level = 9, !.rnd_points = 110, !.price_per_unit = 900,
              !.last_turn_sales_units = 12, !.last_turn_revenue = 10800,
              !.last_turn_cogs = 6600, !.last_turn_gross_profit = 4200,
              !.last_turn_salaries = 30000, !.last_turn_net_income = -25800,
              !.total_gross_profit = 700000, !.total_net_income = 500000 ] >>
  /\ competitors = << 1, 2 >>
  /\ ai_spawn_counter = 2
  /\ turn = MAX_TURNS /\ trend = 100 /\ worker_salary = WORKER_SALARY

\* turn 60: the player's cash is negative and its stock keeps its net worth
\* positive
Overdrawn ==
  /\ businesses =
       << [ Business(0, FALSE, -20000) EXCEPT
              !.inventory = 50, !.workers = 2, !.price_per_unit = 1500,
              !.last_turn_salaries = 30000, !.last_turn_net_income = -30000,
              !.total_net_income = -1000000 ],
          [ AI_Business(1, 50, 100, 5) EXCEPT
              !.money = -10000, !.inventory = 25, !.workers = 1,
              !.price_per_unit = 1200, !.last_turn_salaries = 15000,
              !.last_turn_net_income = -15000, !.total_net_income = -900000 ],
          [ AI_Business(2, 70, 100, 5) EXCEPT
              !.money = 400000, !.inventory = 12, !.workers = 2,
              !.price_per_unit = 1200, !.last_turn_sales_units = 8,
              !.last_turn_revenue = 9600, !.last_turn_cogs = 6400,
              !.last_turn_gross_profit = 3200, !.last_turn_salaries = 30000,
              !.last_turn_net_income = -26800, !.total_net_income = -500000 ] >>
  /\ competitors = << 1, 2 >>
  /\ ai_spawn_counter = 2
  /\ turn = 60 /\ trend = 90 /\ worker_salary = WORKER_SALARY

\* turn 80, after three respawns: the player is sound, neither competitor can
\* pay its workers
Shakeout ==
  /\ businesses =
       << [ Business(0, FALSE, 1200000) EXCEPT
              !.inventory = 20, !.workers = 2, !.price_per_unit = 1600,
              !.last_turn_sales_units = 10, !.last_turn_revenue = 16000,
              !.last_turn_cogs = 8000, !.last_turn_gross_profit = 8000,
              !.last_turn_salaries = 30000, !.last_turn_net_income = -22000,
              !.total_gross_profit = 400000, !.total_net_income = 200000 ],
          [ AI_Business(4, 50, 100, 5) EXCEPT
              !.money = 40000, !.workers = 12, !.loan_amount = 300000,
              !.price_per_unit = 1200, !.last_turn_salaries = 180000,
              !.last_turn_interest_paid = 2500,
              !.last_turn_net_income = -182500, !.total_net_income = -900000 ],
          [ AI_Business(5, 70, 100, 5) EXCEPT
              !.money = 60000, !.inventory = 12, !.workers = 10,
              !.loan_amount = 250000,
              !.price_per_unit = 1200, !.last_turn_sales_units = 8,
              !.last_turn_revenue = 9600, !.last_turn_cogs = 6400,
              !.last_turn_gross_profit = 3200, !.last_turn_salaries = 150000,
              !.last_turn_interest_paid = 2083,
              !.last_turn_net_income = -148883, !.total_net_income = -500000 ] >>
  /\ competitors = << 4, 5 >>
  /\ ai_spawn_counter = 5
  /\ turn = 80 /\ trend = 100 /\ worker_salary = WORKER_SALARY

\* turn t: the player has borrowed to the limit, has nothing to sell and cannot
\* pay its workers; both competitors are sound
Foreclosure(t) ==
  /\ businesses =
       << [ Business(0, FALSE, 10000) EXCEPT
              !.workers = 3, !.loan_amount = 500000,
              !.last_turn_salaries = 45000, !.last_turn_interest_paid = 4166,
              !.last_turn_net_income = -49166, !.total_net_income = -990000 ],
          AI_Business(1, 50, 100, 5), AI_Business(2, 70, 100, 5) >>
  /\ competitors = << 1, 2 >>
  /\ ai_spawn_counter = 2
  /\ turn = t /\ trend = 100 /\ worker_salary = WORKER_SALARY

\* turn t: the player is $100 of net worth short of the target and has the
\* best product on the market in stock
Windfall(t) ==
  /\ businesses =
       << [ Business(0, FALSE, 2440000) EXCEPT
              !.inventory = 100, !.workers = 1, !.price_per_unit = 2500,
              !.production_cost = 500, !.product_quality = 10,
              !.marketing_level = 10, !.last_turn_salaries = 15000,
              !.last_turn_net_income = -15000, !.total_net_income = 1400000 ],
          AI_Business(1, 50, 100, 5), AI_Business(2, 70, 100, 5) >>
  /\ competitors = << 1, 2 >>
  /\ ai_spawn_counter = 2
  /\ turn = t /\ trend = 100 /\ worker_salary = WORKER_SALARY

\* turn 20: Competitor Mk1 has its money in stock, little cash and no loan
CashSqueeze ==
  /\ businesses =
       << [ Business(0, FALSE, 900000) EXCEPT
              !.inventory = 30, !.workers = 2, !.price_per_unit = 1700 ],
          [ AI_Business(1, 50, 100, 5) EXCEPT
              !.money = 30000, !.inventory = 200, !.workers = 2,
              !.price_per_unit = 1500 ],
          [ AI_Business(2, 70, 100, 5) EXCEPT
              !.money = 1500000, !.inventory = 15, !.workers = 2 ] >>
  /\ competitors = << 1, 2 >>
  /\ ai_spawn_counter = 2
  /\ turn = 20 /\ trend = 100 /\ worker_salary = WORKER_SALARY

\* A new game, or a game in progress.  The games that repeat the case of another
\* (a second draw of the competitor's money, a second shakeout, the mid-game twins
\* of the last-turn games) have one surprise less to spend.
Init ==
  /\ \/ NewGame(100) /\ surprises = MaxSurprises
     \/ \E money1 \in SpawnMoney \ {100} :
          NewGame(money1) /\ surprises = MaxSurprises - 1
     \/ (MidGame \/ EndGame \/ Overdrawn \/ CashSqueeze) /\ surprises = MaxSurprises
     \/ (Foreclosure(MAX_TURNS) \/ Windfall(MAX_TURNS)) /\ surprises = MaxSurprises
     \/ (Shakeout \/ Foreclosure(70) \/ Windfall(30))
          /\ surprises = MaxSurprises - 1
  /\ game_over = FALSE /\ outcome = ""
  /\ current_base_demand = BASE_DEMAND
  /\ last_event = "No significant market events."
  /\ pc = "run"
  /\ NoLocals
  /\ first_turn = turn
  /\ calls = 0 /\ ret = FALSE
  /\ snapshot = NoSnapshot
  /\ policy = NoPolicy

\* dict.get(name, 0)
Get(dict, nm) == IF nm \in DOMAIN dict THEN dict[nm] ELSE 0

\* the roster with the firm named nm replaced
Put(bs, nm, b) == [i \in 1..Len(bs) |-> IF bs[i].name = nm THEN b ELSE bs[i]]

\* --- Game.check_game_over (lines 734-755): the banner printed, "" for none ---
\* check_game_over without the test of line 745: out of time is lost
check_game_over_timeout_loses(player, t) ==
  IF player.bankrupt THEN "LostBankruptcy"
  ELSE IF t > MAX_TURNS THEN "LostTimeout"
       ELSE IF calculate_net_worth(player) >= TARGET_NET_WORTH * 100
            THEN "Won" ELSE ""

\* check_game_over without the test of line 742
check_game_over_no_ceiling(player, t) ==
  IF player.bankrupt THEN "LostBankruptcy"
  ELSE IF calculate_net_worth(player) >= TARGET_NET_WORTH * 100
       THEN "Won" ELSE ""

\* check_game_over with the test of line 742 ahead of the test of line 737
check_game_over_turn_first(player, t) ==
  IF t > MAX_TURNS
  THEN IF calculate_net_worth(player) >= TARGET_NET_WORTH * 100
       THEN "WonAtTimeLimit" ELSE "LostTimeout"
  ELSE IF player.bankrupt THEN "LostBankruptcy"
       ELSE IF calculate_net_worth(player) >= TARGET_NET_WORTH * 100
            THEN "Won" ELSE ""

\* Game.check_game_over (lines 734-755): the outcome announced, "" when the
\* game goes on
check_game_over(player, t) ==
  IF player.bankrupt THEN "LostBankruptcy"
  ELSE IF t > MAX_TURNS
       THEN IF calculate_net_worth(player) >= TARGET_NET_WORTH * 100
            THEN "WonAtTimeLimit" ELSE "LostTimeout"
       ELSE IF calculate_net_worth(player) >= TARGET_NET_WORTH * 100
            THEN "Won" ELSE ""

\* Game.run (lines 764-768): the head of the loop
CheckGameOver ==
  /\ pc = "run"
  /\ outcome' = check_game_over(player_business, turn)
  /\ game_over' = (outcome' # "")
  /\ pc' = IF outcome' # "" THEN "over" ELSE "get_player_actions"
  /\ UNCHANGED << businesses, competitors, ai_spawn_counter, turn,
                  current_base_demand, trend, last_event, worker_salary, cursor,
                  start_of_turn_loan_balances, total_demand, market_sales, jitter,
                  ledger, surprises, first_turn, policy, calls, ret, snapshot >>

\* the decision that changes nothing
NoDecision(b) ==
  [ hire |-> 0, fire |-> 0, produce |-> 0, price |-> b.price_per_unit \div 100,
    marketing |-> 0, rnd |-> 0, prefer_quality |-> TRUE, reduction |-> 1,
    take_loan |-> 0, repay |-> 0, save |-> FALSE ]

\* how many fields of d differ from NoDecision
DecisionDevs(b, d) ==
  Cardinality({f \in DOMAIN d : d[f] # NoDecision(b)[f]})

\* the history record of a firm at the start of a turn
OpenLedger(b, production_spent, loan_drawn) ==
  [ cash_start |-> b.money, net_income_start |-> b.total_net_income,
    production_spent |-> production_spent, interest_earned |-> 0,
    loan_drawn |-> loan_drawn ]

\* Game.get_player_actions: per prompt the player answers nothing, a fixed
\* amount or the most the prompt allows
GetPlayerActions ==
  /\ pc = "get_player_actions"
  /\ turn - first_turn < MaxTurnsPlayed
  /\ LET b == player_business
         n == NoDecision(b)
     IN  \E hire \in {0, 2, max_affordable_hires(b)}, fire \in {0, 1} :
         LET d2 == [n EXCEPT !.hire = hire, !.fire = fire]
         IN
         /\ DecisionDevs(b, d2) <= surprises
         /\ \E produce \in {0, max_produce(pa_after(b, 2, d2))},
               price \in {n.price, 12},
               marketing \in {0, player_marketing_cost(b)}, rnd \in {0, 1500},
               prefer_quality \in BOOLEAN, reduction \in {1, 3} :
            LET d6 == [d2 EXCEPT !.produce = produce, !.price = price,
                                 !.marketing = marketing, !.rnd = rnd,
                                 !.prefer_quality = prefer_quality,
                                 !.reduction = reduction]
            IN
            /\ DecisionDevs(b, d6) <= surprises
            /\ \E take_loan \in {0, 5000} :
               LET d7 == [d6 EXCEPT !.take_loan = take_loan]
                   p7 == pa_after(b, 7, d7)
               IN
               \E repay \in {0, TruncDiv(Min2(p7.loan_amount, p7.money), 100)},
                  save \in BOOLEAN :
               LET d == [d7 EXCEPT !.repay = repay, !.save = save]
               IN
               /\ DecisionDevs(b, d) <= surprises
               /\ decision_accepted(b, d)
               /\ businesses' = Put(businesses, 0, get_player_actions(b, d))
               /\ ledger' = [nm \in Names(businesses) |->
                     IF nm = 0
                     THEN OpenLedger(b, d.produce * b.production_cost,
                                     d.take_loan * 100)
                     ELSE OpenLedger(businesses[IndexOf(businesses, nm)], 0, 0)]
               /\ surprises' = surprises - DecisionDevs(b, d)
               \* lines 608-610
               /\ snapshot' = IF d.save
                               THEN save_game(GameObject(businesses'), snapshot)
                               ELSE snapshot
  /\ pc' = "process_turn"
  /\ UNCHANGED << competitors, ai_spawn_counter, turn, game_over, outcome,
                  current_base_demand, trend, last_event, worker_salary, cursor,
                  start_of_turn_loan_balances, total_demand, market_sales, jitter,
                  first_turn, policy, calls, ret >>

\* --- Game.process_turn (lines 612-731) ---
\* line 621
BeginTurn ==
  /\ pc = "process_turn"
  /\ start_of_turn_loan_balances' =
       [nm \in {businesses[i].name : i \in {j \in 1..Len(businesses) :
                                              ~businesses[j].bankrupt}} |->
          businesses[IndexOf(businesses, nm)].loan_amount]
  /\ cursor' = 1
  /\ pc' = IF Len(competitors) = 0 THEN "update_trend" ELSE "ai_decisions"
  /\ UNCHANGED << businesses, competitors, ai_spawn_counter, turn, game_over,
                  outcome, current_base_demand, trend, last_event, worker_salary,
                  total_demand, market_sales, jitter, ledger, surprises,
                  first_turn, policy, calls, ret, snapshot >>

\* lines 625-626: one round of the loop over self.competitors
AIDecide ==
  /\ pc = "ai_decisions"
  /\ LET nm == competitors[cursor]
         b == businesses[IndexOf(businesses, nm)]
     IN  \E demand \in Values(DemandDraws), down \in Values(DownDraws),
            up \in Values(UpDraws), slack \in Values(SlackDraws),
            split \in Values(SplitDraws), roll \in Values(RollDraws),
            reduction \in Values(ReductionDraws) :
         LET devs == Dev(demand, DemandDraws) + Dev(down, DownDraws)
                     + Dev(up, UpDraws) + Dev(slack, SlackDraws)
                     + Dev(split, SplitDraws) + Dev(roll, RollDraws)
                     + Dev(reduction, ReductionDraws)
             d == [demand |-> demand, down |-> down, up |-> up, slack |-> slack,
                   split |-> split, roll |-> roll, reduction |-> reduction]
             after == IF b.bankrupt THEN b
                      ELSE make_decisions(b, trend, player_business.price_per_unit,
                                          worker_salary, d)
         IN
         /\ devs <= surprises
         /\ surprises' = surprises - devs
         /\ businesses' = Put(businesses, nm, after)
         /\ ledger' = [ledger EXCEPT
               ![nm].production_spent =
                  (after.inventory - b.inventory) * b.production_cost,
               ![nm].loan_drawn = Max2(0, after.loan_amount - b.loan_amount)]
  /\ cursor' = cursor + 1
  /\ pc' = IF cursor = Len(competitors) THEN "update_trend" ELSE "ai_decisions"
  /\ UNCHANGED << competitors, ai_spawn_counter, turn, game_over, outcome,
                  current_base_demand, trend, last_event, worker_salary,
                  start_of_turn_loan_balances, total_demand, market_sales, jitter,
                  first_turn, policy, calls, ret, snapshot >>

\* line 630
UpdateTrend ==
  /\ pc = "update_trend"
  /\ \E change \in Values(TrendChanges) :
       /\ Dev(change, TrendChanges) <= surprises
       /\ surprises' = surprises - Dev(change, TrendChanges)
       /\ trend' = update_trend(trend, change)
  /\ pc' = "generate_event"
  /\ UNCHANGED << businesses, competitors, ai_spawn_counter, turn, game_over,
                  outcome, current_base_demand, last_event, worker_salary, cursor,
                  start_of_turn_loan_balances, total_demand, market_sales, jitter,
                  ledger, first_turn, policy, calls, ret, snapshot >>

\* line 631
GenerateEvent ==
  /\ pc = "generate_event"
  /\ \E ev \in EventTypes :
       LET devs == IF ev = "NONE" THEN 0 ELSE 1
       IN  /\ devs <= surprises
           /\ surprises' = surprises - devs
           /\ \E mag \in EventMagnitudes(ev) :
                LET m == generate_event(businesses, trend, worker_salary, ev, mag)
                IN  /\ businesses' = m.businesses
                    /\ trend' = m.trend
                    /\ worker_salary' = m.worker_salary
                    /\ last_event' = m.last_event
  /\ pc' = "calculate_demand"
  /\ UNCHANGED << competitors, ai_spawn_counter, turn, game_over, outcome,
                  current_base_demand, cursor, start_of_turn_loan_balances,
                  total_demand, market_sales, jitter, ledger, first_turn, policy, calls,
                  ret, snapshot >>

\* line 636
CalculateDemand ==
  /\ pc = "calculate_demand"
  /\ \E noise \in Values(NoiseDraws) :
       /\ Dev(noise, NoiseDraws) <= surprises
       /\ surprises' = surprises - Dev(noise, NoiseDraws)
       /\ total_demand' = calculate_total_potential_demand(
                            businesses, current_base_demand, trend, noise)
  /\ pc' = "calculate_market_shares"
  /\ UNCHANGED << businesses, competitors, ai_spawn_counter, turn, game_over,
                  outcome, current_base_demand, trend, last_event, worker_salary,
                  cursor, start_of_turn_loan_balances, market_sales, jitter,
                  ledger, first_turn, policy, calls, ret, snapshot >>

\* line 638
CalculateShares ==
  /\ pc = "calculate_market_shares"
  /\ \E jit \in [1..Len(businesses) -> Values(JitterDraws)] :
       LET devs == Cardinality({i \in DOMAIN jit : jit[i] # JitterDraws[1]})
       IN  /\ devs <= surprises
           /\ surprises' = surprises - devs
           /\ jitter' = jit
           /\ market_sales' = calculate_market_shares(businesses, total_demand, jit)
  /\ pc' = "process_sales"
  /\ UNCHANGED << businesses, competitors, ai_spawn_counter, turn, game_over,
                  outcome, current_base_demand, trend, last_event, worker_salary,
                  cursor, start_of_turn_loan_balances, total_demand, ledger,
                  first_turn, policy, calls, ret, snapshot >>

\* lines 644-647
ProcessSales ==
  /\ pc = "process_sales"
  /\ businesses' = [i \in 1..Len(businesses) |->
       IF businesses[i].bankrupt THEN businesses[i]
       ELSE process_sales(businesses[i], Get(market_sales, businesses[i].name))]
  /\ pc' = "salaries_interest"
  /\ UNCHANGED << competitors, ai_spawn_counter, turn, game_over, outcome,
                  current_base_demand, trend, last_event, worker_salary, cursor,
                  start_of_turn_loan_balances, total_demand, market_sales, jitter,
                  ledger, surprises, first_turn, policy, calls, ret, snapshot >>

\* the body of the loop with its two calls in the other order
interest_then_salaries(b, salary, start_balance) ==
  pay_salaries(apply_interest(b, start_balance), salary)

\* lines 654-656: the body of the loop
salaries_then_interest(b, salary, start_balance) ==
  apply_interest(pay_salaries(b, salary), start_balance)

\* lines 652-656
SalariesInterest ==
  /\ pc = "salaries_interest"
  /\ businesses' = [i \in 1..Len(businesses) |->
       IF businesses[i].bankrupt THEN businesses[i]
       ELSE salaries_then_interest(businesses[i], worker_salary,
              Get(start_of_turn_loan_balances, businesses[i].name))]
  /\ ledger' = [nm \in DOMAIN ledger |->
       IF nm \in Names(businesses) /\ ~businesses[IndexOf(businesses, nm)].bankrupt
       THEN [ledger[nm] EXCEPT !.interest_earned =
               interest_earned(pay_salaries(businesses[IndexOf(businesses, nm)],
                                            worker_salary))]
       ELSE ledger[nm]]
  /\ pc' = "net_income"
  /\ UNCHANGED << competitors, ai_spawn_counter, turn, game_over, outcome,
                  current_base_demand, trend, last_event, worker_salary, cursor,
                  start_of_turn_loan_balances, total_demand, market_sales, jitter,
                  surprises, first_turn, policy, calls, ret, snapshot >>

\* lines 665-671
net_income(b) ==
  LET total_expenses == b.last_turn_cogs + b.last_turn_salaries
                        + b.last_turn_marketing_spent + b.last_turn_rnd_spent
                        + b.last_turn_interest_paid + b.last_turn_hiring_cost
                        + b.last_turn_firing_cost
      net_income_this_turn == b.last_turn_revenue - total_expenses
  IN  [b EXCEPT !.last_turn_net_income = net_income_this_turn,
                !.total_net_income = @ + net_income_this_turn]

\* lines 662-671
NetIncome ==
  /\ pc = "net_income"
  /\ businesses' = [i \in 1..Len(businesses) |->
       IF businesses[i].bankrupt THEN businesses[i] ELSE net_income(businesses[i])]
  /\ pc' = "check_bankruptcy"
  /\ UNCHANGED << competitors, ai_spawn_counter, turn, game_over, outcome,
                  current_base_demand, trend, last_event, worker_salary, cursor,
                  start_of_turn_loan_balances, total_demand, market_sales, jitter,
                  ledger, surprises, first_turn, policy, calls, ret, snapshot >>

\* respawn without lines 723-725: the bankrupt AIs leave and nobody enters
respawn_without_entry(bs, comps, counter, spawn) ==
  LET checked == [i \in 1..Len(bs) |->
                    IF bs[i].bankrupt THEN bs[i] ELSE check_bankruptcy(bs[i])]
      newly == {i \in 1..Len(bs) :
                  ~bs[i].bankrupt /\ checked[i].bankrupt /\ bs[i].is_ai}
      bankrupt_ais_to_remove == {bs[i].name : i \in newly}
      Stays(b) == b.name \notin bankrupt_ais_to_remove
      StaysName(nm) == nm \notin bankrupt_ais_to_remove
  IN  [ businesses |-> SelectSeq(checked, Stays),
        competitors |-> SelectSeq(comps, StaysName),
        ai_spawn_counter |-> counter + Cardinality(newly) ]

\* respawn without line 711: the counter is not advanced before it names the
\* entrant
respawn_without_increment(bs, comps, counter, spawn) ==
  LET checked == [i \in 1..Len(bs) |->
                    IF bs[i].bankrupt THEN bs[i] ELSE check_bankruptcy(bs[i])]
      newly == {i \in 1..Len(bs) :
                  ~bs[i].bankrupt /\ checked[i].bankrupt /\ bs[i].is_ai}
      bankrupt_ais_to_remove == {bs[i].name : i \in newly}
      Stays(b) == b.name \notin bankrupt_ais_to_remove
      StaysName(nm) == nm \notin bankrupt_ais_to_remove
      n == Cardinality(newly)
      new_ais_to_add == [k \in 1..n |->
                           AI_Business(counter, spawn.difficulty,
                                       spawn.money_pct, spawn.margin_u)]
  IN  [ businesses |-> SelectSeq(checked, Stays) \o new_ais_to_add,
        competitors |-> SelectSeq(comps, StaysName) \o [k \in 1..n |-> counter],
        ai_spawn_counter |-> counter ]

\* step 7 with line 724 reading self.businesses.insert(0, ai): the entrants
\* are put in front of the roster
respawn_in_front(bs, comps, counter, spawn) ==
  LET checked == [i \in 1..Len(bs) |->
                    IF bs[i].bankrupt THEN bs[i] ELSE check_bankruptcy(bs[i])]
      newly == {i \in 1..Len(bs) :
                  ~bs[i].bankrupt /\ checked[i].bankrupt /\ bs[i].is_ai}
      bankrupt_ais_to_remove == {bs[i].name : i \in newly}
      Stays(b) == b.name \notin bankrupt_ais_to_remove
      StaysName(nm) == nm \notin bankrupt_ais_to_remove
      n == Cardinality(newly)
      new_ais_to_add == [k \in 1..n |->
                           AI_Business(counter + k, spawn.difficulty,
                                       spawn.money_pct, spawn.margin_u)]
  IN  [ businesses |-> new_ais_to_add \o SelectSeq(checked, Stays),
        competitors |-> SelectSeq(comps, StaysName)
                          \o [k \in 1..n |-> counter + k],
        ai_spawn_counter |-> counter + n ]

\* lines 700-727: the roster after the solvency pass.  checked: the firms after
\* check_bankruptcy; spawn: the new competitor's draws.
respawn(bs, comps, counter, spawn) ==
  LET checked == [i \in 1..Len(bs) |->
                    IF bs[i].bankrupt THEN bs[i] ELSE check_bankruptcy(bs[i])]
      newly == {i \in 1..Len(bs) :
                  ~bs[i].bankrupt /\ checked[i].bankrupt /\ bs[i].is_ai}
      bankrupt_ais_to_remove == {bs[i].name : i \in newly}
      Stays(b) == b.name \notin bankrupt_ais_to_remove
      StaysName(nm) == nm \notin bankrupt_ais_to_remove
      n == Cardinality(newly)
      new_ais_to_add == [k \in 1..n |->
                           AI_Business(counter + k, spawn.difficulty,
                                       spawn.money_pct, spawn.margin_u)]
  IN  [ businesses |-> SelectSeq(checked, Stays) \o new_ais_to_add,
        competitors |-> SelectSeq(comps, StaysName)
                          \o [k \in 1..n |-> counter + k],
        ai_spawn_counter |-> counter + n ]

\* lines 700-727
CheckBankruptcies ==
  /\ pc = "check_bankruptcy"
  /\ \E difficulty \in SpawnDifficulties, money_pct \in SpawnMoney,
        margin_u \in SpawnMargins :
       LET r == respawn(businesses, competitors, ai_spawn_counter,
                        [difficulty |-> difficulty, money_pct |-> money_pct,
                         margin_u |-> margin_u])
       IN  /\ businesses' = r.businesses
           /\ competitors' = r.competitors
           /\ ai_spawn_counter' = r.ai_spawn_counter
  /\ pc' = "advance_turn"
  /\ UNCHANGED << turn, game_over, outcome, current_base_demand, trend,
                  last_event, worker_salary, cursor, start_of_turn_loan_balances,
                  total_demand, market_sales, jitter, ledger, surprises,
                  first_turn, policy, calls, ret, snapshot >>

\* line 731, and the return of process_turn: its locals are gone
AdvanceTurn ==
  /\ pc = "advance_turn"
  /\ turn' = turn + 1
  /\ pc' = "run"
  /\ cursor' = 0 /\ start_of_turn_loan_balances' = << >> /\ total_demand' = 0
  /\ market_sales' = << >> /\ jitter' = << >> /\ ledger' = << >>
  /\ UNCHANGED << businesses, competitors, ai_spawn_counter, game_over, outcome,
                  current_base_demand, trend, last_event, worker_salary,
                  surprises, first_turn, policy, calls, ret, snapshot >>

\* lines 773-783 and Game.run: a new process loads the save file.  The module
\* is imported anew, so its global WORKER_SALARY has the value of line 24.
LoadGame ==
  /\ pc \in {"run", "over"}
  /\ snapshot.saved
  /\ snapshot.loads < MaxLoads
  /\ LET game == load_game(snapshot)
     IN  /\ businesses' = game.businesses
         /\ competitors' = game.competitors
         /\ ai_spawn_counter' = game.ai_spawn_counter
         /\ turn' = game.turn
         /\ game_over' = game.game_over
         /\ current_base_demand' = game.current_base_demand
         /\ trend' = game.trend
         /\ last_event' = game.last_event
  /\ worker_salary' = WORKER_SALARY
  /\ outcome' = ""
  /\ pc' = "run"
  /\ snapshot' = [snapshot EXCEPT !.loads = @ + 1]
  /\ UNCHANGED << cursor, start_of_turn_loan_balances, total_demand, market_sales,
                  jitter, ledger, surprises, first_turn, policy, calls, ret >>

Next ==
  \/ LoadGame
  \/ CheckGameOver
  \/ GetPlayerActions
  \/ BeginTurn
  \/ AIDecide
  \/ UpdateTrend
  \/ GenerateEvent
  \/ CalculateDemand
  \/ CalculateShares
  \/ ProcessSales
  \/ SalariesInterest
  \/ NetIncome
  \/ CheckBankruptcies
  \/ AdvanceTurn

Spec == Init /\ [][Next]_vars

\* ---------------------------------------------------------------------------
\* The market on its own: Market.calculate_market_shares and the sales loop of
\* process_turn (lines 638-647) on a roster of three firms.
\* ---------------------------------------------------------------------------
\* Bounds: the largest inventory and the largest total demand of the rosters
MaxInventory == 3
MaxDemand == 5

\* firm 0 is the player; the prices are one dollar apart so that the jitter can
\* outweigh the price
MarketRoster(inv, price0, quality1, bankrupt2) ==
  << [ Business(0, FALSE, INITIAL_MONEY * 100) EXCEPT
         !.inventory = inv[1], !.price_per_unit = price0 ],
     [ AI_Business(1, 50, 100, 5) EXCEPT
         !.inventory = inv[2], !.product_quality = quality1 ],
     [ AI_Business(2, 70, 100, 5) EXCEPT
         !.inventory = inv[3], !.price_per_unit = 1900, !.bankrupt = bankrupt2 ] >>

InitMarket ==
  /\ \E inv \in [1..3 -> 0..MaxInventory], price0 \in {1200, 1900, 2000},
        quality1 \in {INITIAL_QUALITY, 9}, bankrupt2 \in BOOLEAN :
       businesses = MarketRoster(inv, price0, quality1, bankrupt2)
  /\ total_demand \in 0..MaxDemand
  /\ competitors = << 1, 2 >>
  /\ ai_spawn_counter = NUM_INITIAL_COMPETITORS
  /\ turn = 1 /\ trend = 100 /\ worker_salary = WORKER_SALARY
  /\ game_over = FALSE /\ outcome = ""
  /\ current_base_demand = BASE_DEMAND
  /\ last_event = "No significant market events."
  /\ pc = "calculate_market_shares"
  /\ cursor = 0 /\ start_of_turn_loan_balances = << >>
  /\ market_sales = << >> /\ jitter = << >> /\ ledger = << >>
  /\ surprises = 3
  /\ first_turn = 1
  /\ calls = 0 /\ ret = FALSE
  /\ snapshot = NoSnapshot
  /\ policy = NoPolicy

NextMarket ==
  \/ CalculateShares
  \/ ProcessSales

SpecMarket == InitMarket /\ [][NextMarket]_vars

\* --- Properties of the allocation (SpecMarket) ---
\* the allocation is computed and not yet applied
Allocated == pc = "process_sales"

RosterIndices == [i \in 1..Len(businesses) |-> i]

\* the units calculate_market_shares hands out, over the roster
UnitsAllocated ==
  SumOver([i \in 1..Len(businesses) |-> Get(market_sales, businesses[i].name)],
          RosterIndices, 1)

\* the stock of the firms that can sell
ActiveInventory ==
  SumOver([i \in 1..Len(businesses) |-> businesses[i].inventory],
          active_businesses(businesses), 1)

\* C1: calculate_market_shares loses no demand: after both passes either the
\* whole total demand is allocated or every active firm is allocated all of its
\* inventory; when the active firms' inventory covers the demand, exactly the
\* demand is allocated.
AllocationLosesNoDemand ==
  Allocated =>
    /\ \/ UnitsAllocated = total_demand
       \/ \A i \in 1..Len(businesses) :
            CanSell(businesses[i]) =>
              Get(market_sales, businesses[i].name) = businesses[i].inventory
    /\ ActiveInventory >= total_demand => UnitsAllocated = total_demand

\* C2: the units allocated are never negative and sum to at most the total
\* demand and to at most the inventory of the active firms.
AllocationWithinDemandAndInventory ==
  Allocated =>
    /\ \A nm \in DOMAIN market_sales : market_sales[nm] >= 0
    /\ UnitsAllocated <= total_demand
    /\ UnitsAllocated <= ActiveInventory

\* C2 witness: demand above the stock on sale, and all of the stock allocated
AllocationReachesInventory ==
  /\ Allocated
  /\ ActiveInventory > 0
  /\ total_demand > ActiveInventory
  /\ UnitsAllocated = ActiveInventory

\* firm i is active, cheaper than the active firm j, of the same quality and
\* marketing level
CheaperTwin(i, j) ==
  /\ CanSell(businesses[i]) /\ CanSell(businesses[j])
  /\ businesses[i].product_quality = businesses[j].product_quality
  /\ businesses[i].marketing_level = businesses[j].marketing_level
  /\ businesses[i].price_per_unit < businesses[j].price_per_unit

\* the sorted list of line 330, as roster indices
SortedNow == sorted_businesses(businesses, Scores(businesses, jitter))

\* C9 as stated: of two active firms equal in quality and marketing, the cheaper
\* has the score (jitter and bonus included) that is no lower.
CheaperScoresNoLower ==
  Allocated =>
    \A i, j \in 1..Len(businesses) :
      CheaperTwin(i, j) =>
        score_of(businesses[i], jitter[i]) >= score_of(businesses[j], jitter[j])

\* C9 amended: of two active firms equal in quality and marketing, the cheaper
\* has the score before the jitter that is no lower; its final score is no lower
\* when its jitter draw is no lower, and the active firms are sorted by
\* descending final score.
CheaperScoresNoLowerBeforeJitter ==
  Allocated =>
    /\ \A i, j \in 1..Len(businesses) :
         CheaperTwin(i, j) =>
           /\ base_score(businesses[i]) >= base_score(businesses[j])
           /\ jitter[i] >= jitter[j] =>
                score_of(businesses[i], jitter[i])
                  >= score_of(businesses[j], jitter[j])
    /\ LET order == SortedNow
       IN  /\ {order[k] : k \in 1..Len(order)}
                = {i \in 1..Len(businesses) : CanSell(businesses[i])}
           /\ \A k \in 1..(Len(order) - 1) :
                score_of(businesses[order[k]], jitter[order[k]])
                  >= score_of(businesses[order[k + 1]], jitter[order[k + 1]])

\* C9 witness: a cheaper twin with the higher jitter draw is sorted first
CheaperTwinSortedFirst ==
  /\ Allocated
  /\ \E i, j \in 1..Len(businesses) :
       /\ CheaperTwin(i, j)
       /\ jitter[i] > jitter[j]
       /\ LET order == SortedNow
          IN  \E k, l \in 1..Len(order) : k < l /\ order[k] = i /\ order[l] = j

\* ---------------------------------------------------------------------------
\* One firm on its own: the methods of Business (lines 102-136) called in any
\* order on a firm in the middle of a game.  pc names the last method called.
\* ---------------------------------------------------------------------------
\* Bounds: the method calls made, and the firm's largest stock
MaxCalls == 4
MaxFirmInventory == 2

\* the firm of the harness
firm == businesses[1]

InitFirm ==
  /\ \E money \in {-3000, 20000}, inventory \in 0..MaxFirmInventory,
        loan_amount \in {0, 5000, 70000}, workers \in {0, 1} :
       businesses = << [ Business(0, FALSE, money) EXCEPT
                           !.inventory = inventory, !.loan_amount = loan_amount,
                           !.workers = workers ] >>
  /\ competitors = << >>
  /\ ai_spawn_counter = 0
  /\ turn = 1 /\ trend = 100 /\ worker_salary = WORKER_SALARY
  /\ game_over = FALSE /\ outcome = ""
  /\ current_base_demand = BASE_DEMAND
  /\ last_event = "No significant market events."
  /\ pc = "new"
  /\ NoLocals
  /\ surprises = 0
  /\ first_turn = 1
  /\ calls = 0 /\ ret = FALSE
  /\ snapshot = NoSnapshot
  /\ policy = NoPolicy

\* what a method call leaves alone
FirmFrame ==
  UNCHANGED << competitors, ai_spawn_counter, turn, game_over, outcome,
               current_base_demand, trend, last_event, worker_salary, cursor,
               start_of_turn_loan_balances, total_demand, market_sales, jitter,
               ledger, surprises, first_turn, policy, snapshot >>

\* market_sales holds the units handed to process_sales, as at lines 646-647;
\* they run from one below zero to one above the firm's inventory
CallProcessSales ==
  /\ calls < MaxCalls
  /\ \E units_sold \in -1..(firm.inventory + 1) :
       /\ market_sales' = [nm \in {firm.name} |-> units_sold]
       /\ businesses' = << process_sales(firm, units_sold) >>
  /\ pc' = "called_process_sales"
  /\ calls' = calls + 1
  /\ UNCHANGED << competitors, ai_spawn_counter, turn, game_over, outcome,
                  current_base_demand, trend, last_event, worker_salary, cursor,
                  start_of_turn_loan_balances, total_demand, jitter, ledger,
                  surprises, first_turn, policy, ret, snapshot >>

CallPaySalaries ==
  /\ calls < MaxCalls
  /\ businesses' = << pay_salaries(firm, worker_salary) >>
  /\ pc' = "called_pay_salaries"
  /\ calls' = calls + 1
  /\ UNCHANGED ret
  /\ FirmFrame

CallApplyInterest ==
  /\ calls < MaxCalls
  /\ \E balance \in {0, firm.loan_amount} :
       businesses' = << apply_interest(firm, balance) >>
  /\ pc' = "called_apply_interest"
  /\ calls' = calls + 1
  /\ UNCHANGED ret
  /\ FirmFrame

CallCheckBankruptcy ==
  /\ calls < MaxCalls
  /\ businesses' = << check_bankruptcy(firm) >>
  /\ ret' = is_insolvent(firm)
  /\ pc' = "called_check_bankruptcy"
  /\ calls' = calls + 1
  /\ FirmFrame

NextFirm ==
  \/ CallProcessSales
  \/ CallPaySalaries
  \/ CallApplyInterest
  \/ CallCheckBankruptcy

SpecFirm == InitFirm /\ [][NextFirm]_vars

\* --- Properties of one firm (SpecFirm) ---
\* net worth below 0 and cash below 0, written out from the firm's fields
NegativeNetWorthAndCash(b) ==
  /\ b.money + b.inventory * b.production_cost - b.loan_amount < 0
  /\ b.money < 0

BankruptcyIsOneWay ==
  [][ \A i \in DOMAIN businesses, j \in DOMAIN businesses' :
        businesses[i].name = businesses'[j].name /\ businesses[i].bankrupt
          => businesses'[j].bankrupt ]_vars

\* C5 witness: a bankrupt firm sold its stock, its cash is no longer negative,
\* and a later check_bankruptcy returned false and left the flag set
StillBankruptAfterRecovery ==
  /\ pc = "called_check_bankruptcy"
  /\ ~ret
  /\ firm.bankrupt
  /\ firm.money >= 0

\* --- Properties of the game (Spec) ---
\* the turn is resolved: process_turn has done everything but advance the counter
TurnResolved == pc = "advance_turn"

\* the firms of the roster that were in it when the turn began
InLedger(i) == businesses[i].name \in DOMAIN ledger

\* C3 as stated: the market trend is between 0.5 and 1.5 in every state.
TrendWithinClamp == trend >= 50 /\ trend <= 150

\* the AI firms of the roster that are in business
AIsInBusiness ==
  {i \in 1..Len(businesses) : businesses[i].is_ai /\ ~businesses[i].bankrupt}

\* C6: in every state the roster holds NUM_INITIAL_COMPETITORS AI firms in
\* business, and they are the competitors.
CompetitorPopulationConstant ==
  /\ Len(competitors) = NUM_INITIAL_COMPETITORS
  /\ Cardinality(AIsInBusiness) = NUM_INITIAL_COMPETITORS
  /\ {businesses[i].name : i \in AIsInBusiness}
       = {competitors[k] : k \in 1..Len(competitors)}

\* C6 witness: a turn is resolved in which an AI went bankrupt and a new one
\* entered
CompetitorReplaced ==
  /\ TurnResolved
  /\ \E i \in AIsInBusiness : ~InLedger(i)
  /\ \E nm \in DOMAIN ledger : nm \notin Names(businesses)

\* the cash movements of the turn that the firm records
RecordedCashDeltas(b) ==
  b.last_turn_revenue - b.last_turn_salaries - b.last_turn_marketing_spent
    - b.last_turn_rnd_spent - b.last_turn_interest_paid - b.last_turn_hiring_cost
    - b.last_turn_firing_cost - b.last_turn_loan_repayment

\* the cash movements of the turn that no field of the firm records
UnrecordedCashDeltas(nm) ==
  ledger[nm].interest_earned + ledger[nm].loan_drawn - ledger[nm].production_spent

\* C7 as stated: over a turn a firm's cash changes by the sum of the recorded
\* deltas (revenue, salaries, marketing, R&D, interest paid, hiring, firing, loan
\* repayment).
CashChangeIsRecordedDeltas ==
  TurnResolved =>
    \A i \in 1..Len(businesses) :
      InLedger(i) =>
        businesses[i].money - ledger[businesses[i].name].cash_start
          = RecordedCashDeltas(businesses[i])

\* C7 amended: over a turn a firm's cash changes by the sum of the recorded
\* deltas, less the production spending, plus the deposit interest earned, plus
\* the loan drawn; these three are recorded nowhere.
CashChangeIsRecordedAndUnrecordedDeltas ==
  TurnResolved =>
    \A i \in 1..Len(businesses) :
      InLedger(i) =>
        businesses[i].money - ledger[businesses[i].name].cash_start
          = RecordedCashDeltas(businesses[i])
              + UnrecordedCashDeltas(businesses[i].name)

\* C7 witness: a firm produced, paid salaries and earned deposit interest in the
\* turn
FirmProducedAndEarnedInterest ==
  /\ TurnResolved
  /\ \E i \in 1..Len(businesses) :
       /\ InLedger(i)
       /\ ledger[businesses[i].name].production_spent > 0
       /\ ledger[businesses[i].name].interest_earned > 0
       /\ businesses[i].last_turn_salaries > 0

\* the expenses of lines 665-668
RecordedExpenses(b) ==
  b.last_turn_cogs + b.last_turn_salaries + b.last_turn_marketing_spent
    + b.last_turn_rnd_spent + b.last_turn_interest_paid + b.last_turn_hiring_cost
    + b.last_turn_firing_cost

\* the loan interest of the turn, from the balance captured at line 621
InterestDue(nm) ==
  IF Get(start_of_turn_loan_balances, nm) > 0
  THEN (Get(start_of_turn_loan_balances, nm) * LOAN_INTEREST_RATE) \div 1200
  ELSE 0

\* C8: when a turn is resolved every firm in business has net income = revenue -
\* (cogs + salaries + marketing + R&D + interest paid + hiring + firing); for a
\* firm that began the turn, lifetime net income grew by that amount, revenue
\* and cogs are those of this turn's sale, salaries and interest those of this
\* turn's payroll and loan balance, and the net income agrees with this turn's
\* cash flow (so no spending term is left from an earlier turn).
NetIncomeIdentity ==
  TurnResolved =>
    \A i \in 1..Len(businesses) :
      LET b == businesses[i]
      IN  ~b.bankrupt =>
            /\ b.last_turn_net_income = b.last_turn_revenue - RecordedExpenses(b)
            /\ InLedger(i) =>
                 /\ b.total_net_income
                      = ledger[b.name].net_income_start + b.last_turn_net_income
                 /\ b.last_turn_sales_units = Get(market_sales, b.name)
                 /\ b.last_turn_revenue = b.last_turn_sales_units * b.price_per_unit
                 /\ b.last_turn_cogs = b.last_turn_sales_units * b.production_cost
                 /\ b.last_turn_salaries = b.workers * worker_salary * 100
                 /\ b.last_turn_interest_paid = InterestDue(b.name)
                 /\ b.last_turn_net_income
                      = (b.money - ledger[b.name].cash_start)
                          - UnrecordedCashDeltas(b.name)
                          + b.last_turn_loan_repayment - b.last_turn_cogs

\* C8 witness: in the session resumed at turn 40 the player, who spent on
\* marketing and hiring the turn before, sold units and spent on neither
StaleSpendingCleared ==
  /\ TurnResolved
  /\ first_turn = 40 /\ turn = 40
  /\ ~businesses[1].bankrupt
  /\ businesses[1].last_turn_revenue > 0
  /\ businesses[1].last_turn_marketing_spent = 0
  /\ businesses[1].last_turn_hiring_cost = 0

\* C10: no firm's inventory is ever negative; no firm in business is allocated
\* more units than it holds when the sale is applied, and the units recorded as
\* sold are the units allocated.
InventoryNeverNegative ==
  \A i \in 1..Len(businesses) :
    LET b == businesses[i]
    IN  /\ b.inventory >= 0
        /\ pc = "process_sales" /\ ~b.bankrupt =>
             Get(market_sales, b.name) <= b.inventory
        /\ pc = "salaries_interest" /\ ~b.bankrupt =>
             /\ b.last_turn_sales_units = Get(market_sales, b.name)
             /\ b.last_turn_sales_units >= 0

\* C10 witness: a firm has just sold its whole stock
FirmSoldOut ==
  /\ pc = "salaries_interest"
  /\ \E i \in 1..Len(businesses) :
       /\ businesses[i].last_turn_sales_units > 0
       /\ businesses[i].inventory = 0

\* ---------------------------------------------------------------------------
\* Save and load
\* ---------------------------------------------------------------------------
\* a new process has loaded the save file and has resolved nothing yet
Restored ==
  /\ snapshot.loads > 0
  /\ pc = "run"
  /\ turn = snapshot.game.turn

\* what load_game hands back is what save_game was given
GameRestored ==
  /\ businesses = snapshot.game.businesses
  /\ competitors = snapshot.game.competitors
  /\ ai_spawn_counter = snapshot.game.ai_spawn_counter
  /\ turn = snapshot.game.turn
  /\ current_base_demand = snapshot.game.current_base_demand
  /\ trend = snapshot.game.trend
  /\ last_event = snapshot.game.last_event

\* C11: after a snapshot is restored the roster, the market state, the turn
\* counter, the spawn counter and the current salary rate all have the values
\* they had when the snapshot was taken, also when a wage hike preceded the save.
\* The salary rate is a global of the module and is not in the file: the new
\* process pays WORKER_SALARY again.
RestoreYieldsSavedState ==
  Restored => GameRestored /\ worker_salary = snapshot.worker_salary_at_save

\* ---------------------------------------------------------------------------
\* The order of the steps of process_turn
\* ---------------------------------------------------------------------------
\* the steps of process_turn, in the order of lines 621-731
ResolvingSteps ==
  << "process_turn", "ai_decisions", "update_trend", "generate_event",
     "calculate_demand", "calculate_market_shares", "process_sales",
     "salaries_interest", "net_income", "check_bankruptcy", "advance_turn", "run" >>

\* a step of process_turn, and not the start of another process
ResolvingStep ==
  /\ pc \in { ResolvingSteps[k] : k \in 1..Len(ResolvingSteps) - 1 }
  /\ snapshot'.loads = snapshot.loads

\* the step leaves the firms as they are, except perhaps the one named nm
OnlyFirmChanges(nm) ==
  /\ Names(businesses') = Names(businesses)
  /\ \A i \in 1..Len(businesses) :
       businesses[i].name # nm => businesses'[i] = businesses[i]

\* the cash of firm b after its salaries came off and then its interest was
\* applied to what was left
CashAfterSalariesThenInterest(b) ==
  LET paid == [b EXCEPT !.money = @ - b.workers * worker_salary * 100]
  IN  paid.money + interest_earned(paid) - InterestDue(b.name)

\* C12: every resolved turn performs its steps in one fixed order: the loan
\* balances are captured, every active AI decides, then the trend is updated, the
\* event generated, the total demand calculated, the sales allocated, the sales
\* applied, salaries paid and interest applied (salaries after the revenue and
\* before the interest), the net income computed, solvency checked with removal
\* and respawn, and the turn counter incremented exactly once.
ResolvingInOrder ==
  [][ResolvingStep =>
       /\ pc' # pc => \E k \in 1..Len(ResolvingSteps) - 1 :
                        pc = ResolvingSteps[k] /\ pc' = ResolvingSteps[k + 1]
       /\ pc = "process_turn" =>
            /\ DOMAIN start_of_turn_loan_balances' =
                 { businesses[i].name : i \in { j \in 1..Len(businesses) :
                                                  NotBankrupt(businesses[j]) } }
            /\ businesses' = businesses
       /\ pc = "ai_decisions" =>
            /\ cursor' = cursor + 1
            /\ pc' = pc <=> cursor < Len(competitors)
            /\ OnlyFirmChanges(competitors[cursor])
       /\ pc # "process_turn" /\ pc' # "run" =>
            start_of_turn_loan_balances' = start_of_turn_loan_balances
       /\ trend' # trend => pc \in {"update_trend", "generate_event"}
       /\ pc \in {"update_trend", "calculate_demand", "calculate_market_shares"}
            => businesses' = businesses
       /\ pc # "calculate_demand" /\ pc' # "run" => total_demand' = total_demand
       /\ pc # "calculate_market_shares" /\ pc' # "run"
            => market_sales' = market_sales
       /\ pc = "process_sales" =>
            \A i \in 1..Len(businesses) :
              /\ businesses'[i].money >= businesses[i].money
              /\ businesses'[i].last_turn_salaries = businesses[i].last_turn_salaries
       /\ pc = "salaries_interest" =>
            \A i \in 1..Len(businesses) :
              ~businesses[i].bankrupt =>
                /\ businesses'[i].money = CashAfterSalariesThenInterest(businesses[i])
                /\ businesses'[i].last_turn_revenue = businesses[i].last_turn_revenue
       /\ pc = "net_income" =>
            \A i \in 1..Len(businesses) :
              businesses'[i].money = businesses[i].money
       /\ pc # "check_bankruptcy" => /\ Names(businesses') = Names(businesses)
                                     /\ competitors' = competitors
                                     /\ ai_spawn_counter' = ai_spawn_counter
       /\ turn' = IF pc = "advance_turn" THEN turn + 1 ELSE turn]_vars

\* a turn is through its steps, and a firm in it sold units, paid salaries, earned
\* interest on what was left and paid interest on its loan
TurnResolvedWithSalesSalariesInterest ==
  /\ TurnResolved
  /\ \E i \in 1..Len(businesses) :
       LET b == businesses[i]
       IN  /\ InLedger(i)
           /\ b.last_turn_revenue > 0
           /\ b.last_turn_salaries > 0
           /\ b.last_turn_interest_paid > 0
           /\ ledger[b.name].interest_earned > 0

\* ---------------------------------------------------------------------------
\* The end of a session
\* ---------------------------------------------------------------------------
\* C13: once the solvency pass has marked the player's firm bankrupt, the
\* player stays in the roster and no competitor takes its place, no decision is
\* asked for and no step of a turn is taken, and the session ends in
\* LostBankruptcy, also when the increment of that same turn has taken the turn
\* counter past MAX_TURNS.
PlayerBankruptcyEndsSession ==
  (\E i \in 1..Len(businesses) : ~businesses[i].is_ai /\ businesses[i].bankrupt) =>
     /\ businesses[1].name = 0 /\ ~businesses[1].is_ai
     /\ Len(businesses) = 1 + Len(competitors)
     /\ \A k \in 1..Len(competitors) : competitors[k] # 0
     /\ pc \in {"advance_turn", "run", "over"}
     /\ pc = "run" => check_game_over(player_business, turn) = "LostBankruptcy"
     /\ pc = "over" => outcome = "LostBankruptcy" /\ game_over

\* the player went bankrupt in turn MAX_TURNS and the session is over
BankruptInTheLastTurn ==
  /\ pc = "over"
  /\ player_business.bankrupt
  /\ turn = MAX_TURNS + 1
  /\ outcome = "LostBankruptcy"

\* the player is asked for decisions, or process_turn is at one of its steps
DecidingOrResolving == pc \notin {"run", "over"}

\* C14: a session resolves at most MAX_TURNS turns.  The turn counter is at
\* least 1, goes up by exactly 1 at the end of each resolved turn and changes at
\* no other step; no decision is asked for and no turn resolved once it exceeds
\* MAX_TURNS; and after a terminal outcome the session takes no step at all.
AtMostMaxTurnsResolved ==
  [][snapshot'.loads = snapshot.loads =>
       /\ turn >= first_turn /\ first_turn >= 1
       /\ turn' = IF pc = "advance_turn" THEN turn + 1 ELSE turn
       /\ pc' = "run" <=> pc = "advance_turn"
       /\ DecidingOrResolving => turn <= MAX_TURNS /\ outcome = "" /\ ~game_over
       /\ pc # "over" /\ outcome = ""
       /\ pc' = "over" <=> outcome' \in {"Won", "WonAtTimeLimit", "LostBankruptcy",
                                          "LostTimeout"}]_vars

\* turn MAX_TURNS has been resolved and the session is over for lack of time
OutOfTime ==
  /\ pc = "over"
  /\ turn = MAX_TURNS + 1
  /\ ~player_business.bankrupt
  /\ outcome \in {"WonAtTimeLimit", "LostTimeout"}

\* the player's net worth has reached the target
TargetReached == calculate_net_worth(player_business) >= TARGET_NET_WORTH * 100

\* the outcome is still the one check_game_over announced: nothing has been
\* decided or resolved since
Evaluated == pc \in {"get_player_actions", "over"}

\* C15: at every evaluation, which comes before every decision, the first
\* included, the outcome is Won exactly when the player is not bankrupt and its
\* net worth is at least the target, LostTimeout exactly when the player is not
\* bankrupt, the turn counter exceeds MAX_TURNS and the net worth is below the
\* target, and LostBankruptcy exactly when the player is bankrupt: no two of the
\* three at once, and the player decides only when none of them holds.
OutcomeClassified ==
  Evaluated =>
    /\ outcome \in {"Won", "WonAtTimeLimit"}
         <=> ~player_business.bankrupt /\ TargetReached
    /\ outcome = "LostTimeout"
         <=> ~player_business.bankrupt /\ turn > MAX_TURNS /\ ~TargetReached
    /\ outcome = "LostBankruptcy" <=> player_business.bankrupt
    /\ outcome = "WonAtTimeLimit" => turn > MAX_TURNS
    /\ pc = "get_player_actions" <=> outcome = ""

\* the target was reached in turn MAX_TURNS: the time is up and the game is won
WonWhenTimeWasUp ==
  /\ pc = "over"
  /\ turn > MAX_TURNS
  /\ TargetReached
  /\ outcome = "WonAtTimeLimit"

\* ---------------------------------------------------------------------------
\* A turn on a roster that holds bankrupt firms: the steps of process_turn
\* (lines 621-731) applied to a player and two competitors of which one, two or
\* all three carry the bankrupt flag.  A flagged firm has the negative cash and
\* net worth that check_bankruptcy found, and stock, workers and a loan besides.
\* ---------------------------------------------------------------------------
SoundFirms ==
  << [ Business(0, FALSE, 600000) EXCEPT
         !.inventory = 40, !.workers = 3, !.price_per_unit = 1800,
         !.product_quality = 4, !.marketing_level = 2, !.loan_amount = 200000 ],
     [ AI_Business(1, 50, 100, 5) EXCEPT
         !.money = 900000, !.inventory = 30, !.workers = 3,
         !.price_per_unit = 1300, !.loan_amount = 100000 ],
     [ AI_Business(2, 70, 100, 5) EXCEPT
         !.money = 400000, !.inventory = 12, !.workers = 2 ] >>

Bankrupted(b) ==
  [b EXCEPT !.money = -50000, !.loan_amount = 400000, !.bankrupt = TRUE]

InitInert ==
  /\ \E flag \in [1..3 -> BOOLEAN] :
       /\ \E i \in 1..3 : flag[i]
       /\ businesses = [i \in 1..3 |->
            IF flag[i] THEN Bankrupted(SoundFirms[i]) ELSE SoundFirms[i]]
  /\ competitors = << 1, 2 >>
  /\ ai_spawn_counter = 2
  /\ turn = 40 /\ first_turn = 40
  /\ trend = 100 /\ worker_salary = WORKER_SALARY
  /\ game_over = FALSE /\ outcome = ""
  /\ current_base_demand = BASE_DEMAND
  /\ last_event = "No significant market events."
  /\ pc = "process_turn"
  /\ cursor = 0 /\ start_of_turn_loan_balances = << >> /\ total_demand = 0
  /\ market_sales = << >> /\ jitter = << >>
  /\ ledger = [nm \in Names(businesses) |->
                 OpenLedger(businesses[IndexOf(businesses, nm)], 0, 0)]
  /\ surprises = MaxSurprises
  /\ calls = 0 /\ ret = FALSE
  /\ snapshot = NoSnapshot
  /\ policy = NoPolicy

NextInert ==
  \/ BeginTurn
  \/ AIDecide
  \/ UpdateTrend
  \/ GenerateEvent
  \/ CalculateDemand
  \/ CalculateShares
  \/ ProcessSales
  \/ SalariesInterest
  \/ NetIncome
  \/ CheckBankruptcies
  \/ AdvanceTurn

SpecInert == InitInert /\ [][NextInert]_vars

\* what a firm has: cash, inventory, price, workers, loan, quality, marketing
\* level, production cost and R&D points
Holdings(b) ==
  << b.money, b.inventory, b.price_per_unit, b.workers, b.loan_amount,
     b.product_quality, b.marketing_level, b.production_cost, b.rnd_points >>

\* C16: a bankrupt firm is inert.  No step changes the cash, inventory, price,
\* workers, loan, quality, marketing level, production cost or R&D points of a
\* firm whose bankrupt flag is set, for as long as the firm is in the roster: it
\* decides nothing, is allocated and sold nothing, pays no salaries and no
\* interest, and the market events pass it by.  (A process that starts from the
\* save file is another session.)
BankruptFirmInert ==
  [][\A i \in 1..Len(businesses) :
       businesses[i].bankrupt /\ snapshot'.loads = snapshot.loads =>
         /\ \A j \in 1..Len(businesses') :
              businesses'[j].name = businesses[i].name =>
                /\ Holdings(businesses'[j]) = Holdings(businesses[i])
                /\ businesses'[j].bankrupt
         /\ businesses[i].name \in DOMAIN market_sales' =>
              market_sales'[businesses[i].name] = 0]_vars

\* a turn went by a bankrupt firm with stock, workers and a loan, in which an
\* event raised the production cost or the R&D points of a firm in business
EventPassedBankruptFirmBy ==
  /\ TurnResolved
  /\ last_event \in {"Supply chain disruption!", "Tech breakthrough!"}
  /\ \E i, j \in 1..Len(businesses) :
       /\ businesses[i].bankrupt
       /\ Holdings(businesses[i]) = Holdings(Bankrupted(SoundFirms[i]))
       /\ InLedger(j)
       /\ ~businesses[j].bankrupt
       /\ businesses[j].money # ledger[businesses[j].name].cash_start

\* ---------------------------------------------------------------------------
\* Who is allocated what (SpecMarket)
\* ---------------------------------------------------------------------------
\* C17: calculate_market_shares gives zero units to every firm that is bankrupt
\* or has no inventory when the allocation is made, whatever the total demand and
\* the scores of the other firms, and its result has an entry for every firm of
\* the roster.
NothingAllocatedToBankruptOrEmpty ==
  Allocated =>
    /\ DOMAIN market_sales = Names(businesses)
    /\ \A i \in 1..Len(businesses) :
         businesses[i].bankrupt \/ businesses[i].inventory = 0
           => market_sales[businesses[i].name] = 0

\* a bankrupt firm with stock and a firm without stock get nothing while demand
\* is left over after the third firm has sold all it has
DemandLeftWithBankruptFirmInStock ==
  /\ Allocated
  /\ UnitsAllocated < total_demand
  /\ \E i, j, k \in 1..Len(businesses) :
       /\ businesses[i].bankrupt /\ businesses[i].inventory > 0
       /\ ~businesses[j].bankrupt /\ businesses[j].inventory = 0
       /\ market_sales[businesses[k].name] = businesses[k].inventory
       /\ businesses[k].inventory > 0

\* the final scores of the firms, by roster index
ScoresNow == [i \in 1..Len(businesses) |-> score_of(businesses[i], jitter[i])]

\* the firms that can sell
ActiveNow == {i \in 1..Len(businesses) : CanSell(businesses[i])}

\* what the proportional pass gives each active firm (lines 336-338): the floor
\* of its share of the demand, its inventory at most.  (The third bound of line
\* 338 never binds: the floors of the shares add up to the demand at most.)
ProportionalNow ==
  LET sc == ScoresNow
      total_score == SumOver(sc, InRosterOrder(ActiveNow), 1)
  IN  [i \in ActiveNow |->
         Min2(businesses[i].inventory, (total_demand * sc[i]) \div total_score)]

\* firm i got a unit in the remainder pass that followed the proportional
\* allocation `first`
GotRemainderUnit(first, i) == market_sales[businesses[i].name] = first[i] + 1

\* firm i had stock left after the proportional allocation `first`
HadSpareInventory(first, i) == businesses[i].inventory > first[i]

\* with scores sc firm i is ahead of firm j: the higher score, or the same score
\* and earlier in the roster
RankedAhead(sc, i, j) == sc[i] > sc[j] \/ (sc[i] = sc[j] /\ i < j)

\* C18: in the remainder pass the leftover units go to the firms in descending
\* order of score, firms of equal score in roster order: a firm gets a remainder
\* unit only if every firm ahead of it that still had spare inventory got one
\* too, and no firm gets more than one.
RemainderInScoreOrder ==
  Allocated /\ ActiveNow # {} =>
    LET first == ProportionalNow
        sc == ScoresNow
    IN  \A j \in ActiveNow :
          /\ market_sales[businesses[j].name] - first[j] \in {0, 1}
          /\ GotRemainderUnit(first, j) =>
               \A i \in ActiveNow :
                 RankedAhead(sc, i, j) /\ HadSpareInventory(first, i)
                   => GotRemainderUnit(first, i)

\* two firms of equal score had spare inventory, one remainder unit was left
\* for them, and the one earlier in the roster got it
TieBrokenInRosterOrder ==
  /\ Allocated
  /\ Cardinality(ActiveNow) >= 2
  /\ LET first == ProportionalNow
         sc == ScoresNow
     IN  \E i, j \in ActiveNow :
           /\ i < j
           /\ sc[i] = sc[j]
           /\ HadSpareInventory(first, i) /\ HadSpareInventory(first, j)
           /\ GotRemainderUnit(first, i) /\ ~GotRemainderUnit(first, j)

\* ---------------------------------------------------------------------------
\* process_sales on its own (SpecFirm)
\* ---------------------------------------------------------------------------
\* the step is a call of process_sales
ProcessSalesCalled == pc' = "called_process_sales" /\ calls' = calls + 1

\* C19: process_sales called with a number of units below zero or above the
\* firm's inventory leaves cash, inventory and lifetime gross profit as they are
\* and sets units sold, revenue, cost of goods sold and gross profit of the turn
\* to zero; called with 1..inventory units it takes them from the inventory and
\* adds units x price to the cash.
ProcessSalesGuardsItsInput ==
  [][ProcessSalesCalled =>
       LET units_sold == market_sales'[firm.name]
           before == firm
           after == businesses'[1]
       IN  /\ units_sold \in 1..before.inventory =>
                /\ after.inventory = before.inventory - units_sold
                /\ after.money = before.money + units_sold * before.price_per_unit
                /\ after.last_turn_sales_units = units_sold
           /\ units_sold < 0 \/ units_sold > before.inventory =>
                /\ after.money = before.money
                /\ after.inventory = before.inventory
                /\ after.total_gross_profit = before.total_gross_profit
                /\ after.last_turn_sales_units = 0
                /\ after.last_turn_revenue = 0
                /\ after.last_turn_cogs = 0
                /\ after.last_turn_gross_profit = 0]_vars

\* a firm that has sold before was handed more units than it has: the sale of
\* the turn reads zero and the lifetime gross profit is kept
OversoldAfterASale ==
  /\ pc = "called_process_sales"
  /\ market_sales[firm.name] > firm.inventory
  /\ firm.inventory > 0
  /\ firm.total_gross_profit > 0
  /\ firm.last_turn_sales_units = 0
  /\ firm.last_turn_revenue = 0

\* ---------------------------------------------------------------------------
\* The base of the loan interest
\* ---------------------------------------------------------------------------
\* the loan firm b had when process_turn began: a competitor's loan of now
\* without what make_decisions drew and with what it repaid in this turn; the
\* player's loan of now, which process_turn does not touch
LoanAtStartOfResolution(b) ==
  IF b.is_ai
  THEN b.loan_amount - ledger[b.name].loan_drawn + b.last_turn_loan_repayment
  ELSE b.loan_amount

\* C20: the loan interest a firm pays in a turn is (LOAN_INTEREST_RATE / 12) x
\* the loan it had when the resolution of the turn began, before the competitors
\* decided: a loan a competitor draws in the turn bears no interest in it, a
\* loan it repays in the turn bears the full interest, and a firm that entered
\* the roster after the balances were captured pays none.
InterestOnLoanAtStartOfTurn ==
  TurnResolved =>
    \A i \in 1..Len(businesses) :
      LET b == businesses[i]
      IN  IF InLedger(i)
          THEN b.last_turn_interest_paid
                 = (LoanAtStartOfResolution(b) * LOAN_INTEREST_RATE) \div 1200
          ELSE /\ b.last_turn_interest_paid = 0
               /\ b.money \in { (INITIAL_MONEY * pct) : pct \in SpawnMoney }

\* a competitor without a loan drew one in the turn and paid no interest
LoanDrawnBearsNoInterestYet ==
  /\ TurnResolved
  /\ \E i \in 1..Len(businesses) :
       /\ InLedger(i)
       /\ businesses[i].is_ai
       /\ ledger[businesses[i].name].loan_drawn > 0
       /\ businesses[i].loan_amount = ledger[businesses[i].name].loan_drawn
       /\ businesses[i].last_turn_interest_paid = 0

\* --- C21: quality, marketing level and unit cost stay within their limits ---
\* the floor of the unit production cost (lines 255, 587), cents
COST_FLOOR == 500

WithinLimits(b) ==
  /\ b.product_quality \in 1..10
  /\ b.marketing_level \in 1..10
  /\ b.production_cost >= COST_FLOOR

\* C21: in every reachable state every firm of the roster has a product quality
\* in 1..10, a marketing level in 1..10 and a unit production cost of at least
\* the floor, whatever the player decided, the AI firms invested, the R&D
\* breakthroughs chose and the market events did.
AttributesWithinLimits ==
  \A i \in 1..Len(businesses) : WithinLimits(businesses[i])

\* C21 witness: the AI firms have decided, and one of them paid for R&D this
\* turn, used up its breakthrough points and stands at quality 10 with its unit
\* cost at the floor.
BreakthroughAtTheLimits ==
  /\ pc = "update_trend"
  /\ \E i \in 1..Len(businesses) :
       /\ businesses[i].is_ai
       /\ businesses[i].last_turn_rnd_spent > 0
       /\ businesses[i].rnd_points < RND_POINTS_PER_UPGRADE
       /\ businesses[i].product_quality = 10
       /\ businesses[i].production_cost = COST_FLOOR

\* --- C22: the spawn counter names every firm once ---
\* no two positions of the roster bs hold the same name
NamesDistinct(bs) ==
  \A i, j \in 1..Len(bs) : bs[i].name = bs[j].name => i = j

\* the units the sales map holds for the firms of the roster, position by position
RECURSIVE UnitsOfRoster(_, _, _)
UnitsOfRoster(bs, sales, k) ==
  IF k > Len(bs) THEN 0 ELSE sales[bs[k].name] + UnitsOfRoster(bs, sales, k + 1)

\* the units the sales map holds, key by key
RECURSIVE UnitsOfMap(_, _)
UnitsOfMap(sales, keys) ==
  IF keys = {} THEN 0
  ELSE LET nm == CHOOSE x \in keys : TRUE
       IN  sales[nm] + UnitsOfMap(sales, keys \ {nm})

\* C22: within a session the spawn counter never decreases and every step that
\* brings firms into the roster advances it by one per entrant, whose names are
\* the numbers it passed; no AI firm is named above the counter, so no name is
\* ever used twice and the names of the roster are pairwise distinct.  Hence
\* the loan-balance map holds under each firm's name that firm's own loan, and
\* the sales map holds every allocated unit for exactly one firm of the roster.
SpawnCounterNamesEveryFirmOnce ==
  [][ snapshot'.loads = snapshot.loads =>
        /\ ai_spawn_counter' >= ai_spawn_counter
        /\ Names(businesses') \ Names(businesses)
             = (ai_spawn_counter + 1)..ai_spawn_counter'
        /\ Names(businesses') \subseteq 0..ai_spawn_counter'
        /\ NamesDistinct(businesses')
        /\ pc = "process_turn" =>
             \A i \in 1..Len(businesses) :
               ~businesses[i].bankrupt =>
                 start_of_turn_loan_balances'[businesses[i].name]
                   = businesses[i].loan_amount
        /\ pc = "calculate_market_shares" =>
             /\ DOMAIN market_sales' = Names(businesses)
             /\ UnitsOfRoster(businesses, market_sales', 1)
                  = UnitsOfMap(market_sales', DOMAIN market_sales') ]_vars

\* C22 witness: a turn is resolved in which a competitor named by a spawn after
\* the session's start is in the roster, next to firms with loans and sales
FirmNamedByRespawnInRoster ==
  /\ TurnResolved
  /\ \E i \in 1..Len(businesses) :
       /\ businesses[i].name > NUM_INITIAL_COMPETITORS
       /\ businesses[i].name = ai_spawn_counter
       /\ ~InLedger(i)
  /\ \E i \in 1..Len(businesses) : businesses[i].last_turn_sales_units > 0
  /\ \E i \in 1..Len(businesses) : businesses[i].loan_amount > 0

\* --- C23: the proportional pass ---
\* the floor of firm i's share of the demand: floor(total_demand x score / total score)
FloorShareNow ==
  LET sc == ScoresNow
      total_score == SumOver(sc, InRosterOrder(ActiveNow), 1)
  IN  [i \in ActiveNow |-> (total_demand * sc[i]) \div total_score]

\* the demand the proportional allocation `first` leaves for firm i: the total
\* demand less what the firms ranked ahead of i were given
NotYetAllocated(first, i) ==
  LET sc == ScoresNow
      ahead == {j \in ActiveNow : RankedAhead(sc, j, i)}
  IN  total_demand - SumOver(first, InRosterOrder(ahead), 1)

\* the proportional pass of lines 332-340 on the roster, demand and jitter of now
\* (@@ << >> and \o << >> leave a function as it is; they make TLC compute it once)
ProportionalPassNow ==
  LET sc == Scores(businesses, jitter) @@ << >>
      order == sorted_businesses(businesses, sc) \o << >>
      total_score == SumOver(ScoresNow, order, 1)
  IN  proportional_pass(businesses, sc, total_score, order, total_demand, 1,
        [sales |-> [nm \in Names(businesses) |-> 0], allocated |-> 0]).sales

\* two firms with stock to spare and scores 3.0 and 1.0, the higher first
TwoFirmsInStock ==
  << [Business(0, FALSE, INITIAL_MONEY * 100) EXCEPT !.inventory = 100],
     [AI_Business(1, 50, 100, 5) EXCEPT !.inventory = 100] >>
ThreeToOne == [nm \in {0, 1} |-> IF nm = 0 THEN 30000 ELSE 10000]

\* C23: the proportional pass gives each active firm, in descending order of
\* score, min(floor(total demand x its score / total score), its inventory, the
\* demand not yet allocated); and when no firm's inventory is below its floor
\* share, every firm ends the allocation with that floor or with one unit more.
\* Scores 3.0 and 1.0 with a demand of 80 give 60 and 20.
ProportionalPassGivesFloorShares ==
  /\ Allocated /\ ActiveNow # {} =>
       LET floor == FloorShareNow
           first == ProportionalPassNow
           given == [i \in 1..Len(businesses) |->
                       IF i \in ActiveNow THEN first[businesses[i].name] ELSE 0]
                    \o << >>
       IN  /\ \A i \in ActiveNow :
                 given[i] = Min3(floor[i], businesses[i].inventory,
                                 NotYetAllocated(given, i))
           /\ (\A i \in ActiveNow : businesses[i].inventory >= floor[i]) =>
                \A i \in ActiveNow :
                  market_sales[businesses[i].name] \in {floor[i], floor[i] + 1}
  /\ proportional_pass(TwoFirmsInStock, ThreeToOne, 40000, << 1, 2 >>, 80, 1,
       [sales |-> [nm \in {0, 1} |-> 0], allocated |-> 0])
       = [sales |-> [nm \in {0, 1} |-> IF nm = 0 THEN 60 ELSE 20], allocated |-> 80]

\* C23 witness: three firms share a demand that no firm's inventory limits; one
\* of them ends with its floor share, of one unit at least, and another with
\* one unit more than its floor share
FloorShareAndOneMore ==
  /\ Allocated
  /\ Cardinality(ActiveNow) = 3
  /\ \A i \in ActiveNow : businesses[i].inventory > FloorShareNow[i]
  /\ \E i, j \in ActiveNow :
       /\ FloorShareNow[i] >= 1
       /\ market_sales[businesses[i].name] = FloorShareNow[i]
       /\ market_sales[businesses[j].name] = FloorShareNow[j] + 1

\* --- C24: the loan a competitor draws ---
\* competitor nm's cash after the production, staffing and investment steps of
\* the make_decisions call this step makes: its cash before the call less what
\* the call spent on production, hiring, firing, marketing and R&D
CashBeforeLoanStep(nm) ==
  LET b == businesses[IndexOf(businesses, nm)]
      a == businesses'[IndexOf(businesses', nm)]
  IN  b.money - ledger'[nm].production_spent - a.last_turn_hiring_cost
        - a.last_turn_firing_cost - a.last_turn_marketing_spent
        - a.last_turn_rnd_spent

\* competitor nm as it enters the loan step (lines 262-264)
BeforeLoanStep(nm) ==
  [ businesses'[IndexOf(businesses', nm)] EXCEPT
      !.money = CashBeforeLoanStep(nm),
      !.loan_amount = businesses[IndexOf(businesses, nm)].loan_amount ]

\* C24 as stated: whenever a competitor's cash after the production, staffing
\* and investment steps is below its required buffer, make_decisions draws a
\* loan of exactly min(buffer - cash, get_max_loan()), and the loan and the
\* cash both grow by that amount.
LoanDrawnIsCappedShortfall ==
  [][ pc = "ai_decisions" =>
        LET nm == competitors[cursor]
            b == businesses[IndexOf(businesses, nm)]
            a == businesses'[IndexOf(businesses', nm)]
            buffer == required_cash_buffer(b, worker_salary)
            cash == CashBeforeLoanStep(nm)
            size == Min2(buffer - cash, get_max_loan(BeforeLoanStep(nm)))
        IN  ~b.bankrupt /\ cash < buffer =>
              /\ a.loan_amount = b.loan_amount + size
              /\ a.money = cash + size ]_vars

\* ---------------------------------------------------------------------------
\* AI_Business.make_decisions, step by step (SpecPolicy)
\* ---------------------------------------------------------------------------
\* One call of make_decisions (lines 166-274) on a competitor drawn from the
\* values below, in a roster of the player and that competitor.  Each section
\* of the method is one step; the method's locals are in `policy`.

\* the competitor's cash (cents), stock, staff, loan (cents), last sales, unit
\* cost (cents) and margin draw (percent) when make_decisions is called
PolicyMoney == { -5000, 30000, 150000, 320000, 3000000 }
PolicyInventory == { 0, 15, 200 }
PolicyWorkers == { 0, 2, 6 }
PolicyLoan == { 0, 50000, 12000000 }
PolicyLastSales == { 0, 25 }
PolicyCost == { 500, 800 }
PolicyMargin == { -10, 5 }
\* the player's price (cents) and the salary rate (dollars; 165 after a wage hike)
PolicyPlayerPrice == { 100, 1700 }
PolicySalary == { WORKER_SALARY, 165 }

\* the competitor whose make_decisions runs
policy_firm == businesses[2]

InitPolicy ==
  /\ \E money \in PolicyMoney, inventory \in PolicyInventory,
        workers \in PolicyWorkers, loan \in PolicyLoan,
        sales \in PolicyLastSales, cost \in PolicyCost,
        margin_u \in PolicyMargin, player_price \in PolicyPlayerPrice :
       LET b == [ AI_Business(1, 70, 100, margin_u) EXCEPT
                    !.money = money, !.inventory = inventory,
                    !.workers = workers, !.loan_amount = loan,
                    !.last_turn_sales_units = sales, !.production_cost = cost,
                    !.rnd_points = 110, !.last_turn_salaries = workers * 15000 ]
       IN  businesses =
             << [ Business(0, FALSE, INITIAL_MONEY * 100) EXCEPT
                    !.price_per_unit = player_price ],
                \* check_bankruptcy of the turn before has flagged the insolvent
                [ b EXCEPT !.bankrupt = is_insolvent(b) ] >>
  /\ worker_salary \in PolicySalary
  /\ competitors = << 1 >>
  /\ ai_spawn_counter = 1
  /\ turn = 40 /\ first_turn = 40 /\ trend = 100
  /\ game_over = FALSE /\ outcome = ""
  /\ current_base_demand = BASE_DEMAND
  /\ last_event = "No significant market events."
  /\ pc = "make_decisions"
  /\ NoLocals
  /\ surprises = MaxSurprises
  /\ calls = 0 /\ ret = FALSE
  /\ snapshot = NoSnapshot
  /\ policy = NoPolicy

\* what no step of make_decisions touches
PolicyFrame ==
  UNCHANGED << competitors, ai_spawn_counter, turn, game_over, outcome,
               current_base_demand, trend, last_event, worker_salary, cursor,
               start_of_turn_loan_balances, total_demand, market_sales, jitter,
               ledger, first_turn, calls, ret, snapshot >>

\* lines 168-171: the bankrupt firm returns at once; the trackers are reset and
\* the buffer is estimated
PolicyBegin ==
  /\ pc = "make_decisions"
  /\ IF policy_firm.bankrupt
     THEN /\ pc' = "returned"
          /\ UNCHANGED << businesses, policy >>
     ELSE /\ pc' = "md_production"
          /\ businesses' =
               [businesses EXCEPT ![2] = reset_turn_spending_trackers(@)]
          /\ policy' =
               [ NoPolicy EXCEPT
                   !.required_cash_buffer =
                      required_cash_buffer(policy_firm, worker_salary),
                   !.money_at_call = policy_firm.money,
                   !.inventory_at_call = policy_firm.inventory ]
  /\ UNCHANGED surprises
  /\ PolicyFrame

\* 1. Production, lines 173-194
PolicyProduction ==
  /\ pc = "md_production"
  /\ \E demand \in Values(DemandDraws) :
       LET u == demand_factor(policy_firm, demand)
       IN  /\ Dev(demand, DemandDraws) <= surprises
           /\ surprises' = surprises - Dev(demand, DemandDraws)
           /\ policy' =
                [ policy EXCEPT
                    !.target_inventory = target_inventory(policy_firm, trend, u),
                    !.needed_production = needed_production(policy_firm, trend, u) ]
           /\ businesses' =
                [businesses EXCEPT
                   ![2] = md_production(@, trend, u, worker_salary)]
  /\ pc' = "md_pricing"
  /\ PolicyFrame

\* 2. Pricing, lines 196-201
PolicyPricing ==
  /\ pc = "md_pricing"
  /\ \E down \in Values(DownDraws), up \in Values(UpDraws) :
       LET devs == Dev(down, DownDraws) + Dev(up, UpDraws)
       IN  /\ devs <= surprises
           /\ surprises' = surprises - devs
           /\ businesses' =
                [businesses EXCEPT
                   ![2] = md_pricing(@, policy.target_inventory,
                                     businesses[1].price_per_unit, down, up)]
  /\ pc' = "md_staffing"
  /\ UNCHANGED policy
  /\ PolicyFrame

\* 3. Staffing, lines 203-222
PolicyStaffing ==
  /\ pc = "md_staffing"
  /\ \E slack \in Values(SlackDraws) :
       /\ Dev(slack, SlackDraws) <= surprises
       /\ surprises' = surprises - Dev(slack, SlackDraws)
       /\ businesses' =
            [businesses EXCEPT
               ![2] = md_staffing(@, policy.needed_production, slack,
                                  worker_salary, policy.required_cash_buffer)]
  /\ pc' = "md_investment"
  /\ UNCHANGED policy
  /\ PolicyFrame

\* 4. Marketing & R&D, lines 224-259
PolicyInvestment ==
  /\ pc = "md_investment"
  /\ \E split \in Values(SplitDraws), roll \in Values(RollDraws),
        reduction \in Values(ReductionDraws) :
       LET devs == Dev(split, SplitDraws) + Dev(roll, RollDraws)
                   + Dev(reduction, ReductionDraws)
       IN  /\ devs <= surprises
           /\ surprises' = surprises - devs
           /\ businesses' =
                [businesses EXCEPT
                   ![2] = md_investment(@, split, roll, reduction,
                                        policy.required_cash_buffer)]
  /\ pc' = "md_loans"
  /\ UNCHANGED policy
  /\ PolicyFrame

\* 5. Loans, lines 261-274, and the return
PolicyLoans ==
  /\ pc = "md_loans"
  /\ businesses' =
       [businesses EXCEPT ![2] = md_loans(@, policy.required_cash_buffer)]
  /\ pc' = "returned"
  /\ UNCHANGED << policy, surprises >>
  /\ PolicyFrame

NextPolicy ==
  \/ PolicyBegin
  \/ PolicyProduction
  \/ PolicyPricing
  \/ PolicyStaffing
  \/ PolicyInvestment
  \/ PolicyLoans

SpecPolicy == InitPolicy /\ [][NextPolicy]_vars

\* --- C25: a competitor with stock does not spend below its buffer ---
SpendingSteps == { "md_production", "md_staffing", "md_investment" }

Priced == pc \in { "md_staffing", "md_investment", "md_loans" }
          \/ (pc = "returned" /\ ~policy_firm.bankrupt)

\* C26: once make_decisions has set the price, and still when it returns, the
\* competitor's unit price is at least its unit production cost + 1, whatever
\* the player's price, the firm's margin and the inventory nudges are.
PriceCoversCost ==
  Priced => policy_firm.price_per_unit >= policy_firm.production_cost + 100

\* C26 witness: the price was just set to unit cost + 1 for a firm whose margin,
\* nudge and the player's price of 1 give less than that
PriceRaisedToCostPlusOne ==
  /\ pc = "md_staffing"
  /\ policy_firm.price_per_unit = policy_firm.production_cost + 100
  /\ businesses[1].price_per_unit = 100
  /\ \A down \in Values(DownDraws), up \in Values(UpDraws) :
       md_pricing_unfloored(policy_firm, policy.target_inventory,
                            businesses[1].price_per_unit, down, up).price_per_unit
         < policy_firm.production_cost + 100

\* --- C28: make_decisions never overdraws the firm ---
PolicySteps ==
  { "md_production", "md_pricing", "md_staffing", "md_investment", "md_loans" }

\* the step leaves everything the firm spends on as it was
NothingSpent ==
  /\ policy_firm'.money = policy_firm.money
  /\ policy_firm'.inventory = policy_firm.inventory
  /\ policy_firm'.workers = policy_firm.workers
  /\ policy_firm'.marketing_level = policy_firm.marketing_level
  /\ policy_firm'.rnd_points = policy_firm.rnd_points
  /\ policy_firm'.loan_amount = policy_firm.loan_amount
  /\ policy_firm'.last_turn_hiring_cost = 0
  /\ policy_firm'.last_turn_firing_cost = 0
  /\ policy_firm'.last_turn_marketing_spent = 0
  /\ policy_firm'.last_turn_rnd_spent = 0

\* C28: a competitor whose cash is >= 0 when make_decisions starts has cash >= 0
\* after each of the five steps; one whose cash is negative at the start produces,
\* hires, fires, invests and repays nothing, only a loan draw changes its cash.
PolicyNeverOverdraws ==
  [][ (pc \in PolicySteps) =>
        ( /\ (policy.money_at_call >= 0 => policy_firm'.money >= 0)
          /\ ((policy.money_at_call < 0 /\ pc # "md_loans") => NothingSpent)
          /\ ((policy.money_at_call < 0 /\ pc = "md_loans") =>
                ( /\ policy_firm'.last_turn_loan_repayment = 0
                  /\ policy_firm'.money >= policy_firm.money
                  /\ policy_firm'.money - policy_firm.money
                       = policy_firm'.loan_amount - policy_firm.loan_amount ))
        ) ]_vars

\* C28 witness: a firm with workers and negative cash, whose stock is short of its
\* target, has been through all five steps with the stock it started with
OverdrawnFirmProducedNothing ==
  /\ pc = "returned"
  /\ policy.money_at_call < 0
  /\ policy_firm.workers > 0
  /\ policy.needed_production > 0
  /\ policy_firm.inventory = policy.inventory_at_call

\* --- C27: the player's decision can always be entered ---
\* run() has found the game not over and get_player_actions is asking
DecisionAwaited == pc = "get_player_actions" /\ ~game_over

\* C27: in every state in which the player's decision is awaited, also when the
\* player's cash is negative and the net worth is not, every prompt has a
\* non-empty range 0..max, so the decision that hires, fires, produces, invests,
\* borrows and repays nothing is accepted.
ZeroDecisionAlwaysAccepted ==
  DecisionAwaited =>
    decision_accepted(player_business, NoDecision(player_business))

\* --- C29: the player heads the roster ---
\* businesses[0] of the code is the player's firm and every other element is a
\* competitor
PlayerHeadsRoster(bs) ==
  /\ Len(bs) >= 1
  /\ bs[1].name = 0 /\ ~bs[1].is_ai
  /\ \A i \in 2..Len(bs) : bs[i].is_ai

\* C29: the player's firm is the first element of the roster before and after
\* every step, bankruptcies, removals and respawns included, and the event step
\* leaves the marketing level of every competitor as it was.
PlayerStaysFirstInRoster ==
  [][ /\ PlayerHeadsRoster(businesses)
      /\ PlayerHeadsRoster(businesses')
      /\ (pc = "generate_event" /\ pc' = "calculate_demand") =>
           \A i \in 2..Len(businesses) :
             businesses'[i].marketing_level = businesses[i].marketing_level
    ]_vars

\* C29 witness: in a roster that holds the entrant of a respawn, the positive-PR
\* event has just raised the marketing level of the firm at the head, the player
PositivePRAfterRespawn ==
  /\ pc = "calculate_demand"
  /\ last_event = "Positive PR (Marketing Lvl Up)."
  /\ \E i \in 2..Len(businesses) : businesses[i].name > NUM_INITIAL_COMPETITORS
  /\ PlayerHeadsRoster(businesses)

\* --- C30: computing demand and shares changes nothing ---
\* the roster, every attribute of every firm and the market are as before
MarketAndRosterUnchanged ==
  /\ businesses' = businesses
  /\ competitors' = competitors
  /\ current_base_demand' = current_base_demand
  /\ trend' = trend
  /\ last_event' = last_event
  /\ worker_salary' = worker_salary

\* every firm still trading sells the count returned for its name
SalesAppliedAsReturned ==
  /\ Len(businesses') = Len(businesses)
  /\ \A i \in 1..Len(businesses) :
       LET b == businesses[i]
           sold == IF b.bankrupt THEN 0 ELSE Get(market_sales, b.name)
       IN  /\ businesses'[i].inventory = b.inventory - sold
           /\ businesses'[i].money = b.money + sold * b.price_per_unit

\* C30: calculate_total_potential_demand and calculate_market_shares leave every
\* attribute of every firm, the roster and the market's base demand and trend
\* unchanged; inventory and cash change when process_sales is called with the
\* counts returned, and by those counts.
DemandAndSharesChangeNothing ==
  [][ (snapshot'.loads = snapshot.loads) =>
        ( /\ (pc \in { "calculate_demand", "calculate_market_shares" }
                => MarketAndRosterUnchanged)
          /\ (pc = "process_sales" => SalesAppliedAsReturned)
        ) ]_vars

\* C30 witness: shares have been computed for a positive demand, units are
\* allotted to a firm, and the firm still holds them
SharesReturnedStockUntouched ==
  /\ pc = "process_sales"
  /\ total_demand > 0
  /\ \E i \in 1..Len(businesses) :
       /\ Get(market_sales, businesses[i].name) > 0
       /\ businesses[i].inventory >= Get(market_sales, businesses[i].name)
       /\ businesses[i].last_turn_sales_units # Get(market_sales, businesses[i].name)

=============================================================================
